---- MODULE Spec2Model ----
(***************************************************************************)
(* The adaptive interview state machine of the Excel interviewer:          *)
(* ExcelInterviewAgent (backend/core/interview_agent.py) driving           *)
(* InterviewState (backend/models/interview_state.py), the shared          *)
(* ExcelQuestionBank (backend/core/question_bank.py) and                   *)
(* ExcelAnswerEvaluator (backend/core/evaluator.py).                       *)
(*                                                                         *)
(* Scores are kept in hundredths of a point (8500 is 85.0), so that the    *)
(* rubric weights 0.40/0.25/0.20/0.15 and the fallback factors 0.9/0.8/    *)
(* 0.85/0.88 stay integer arithmetic; means are compared by cross          *)
(* multiplication.  Floating point rounding is modelled where a claim is   *)
(* about an exact value (the consistency score), and nowhere else.         *)
(*                                                                         *)
(* The language model is the environment.  What the code reads of a text   *)
(* it generates is only whether it contains a question mark; what it reads *)
(* of a JSON answer is the shape and the numbers.  Each call of the        *)
(* transport (backend/utils/llm_client.py) therefore yields one of a few   *)
(* outcomes, drawn from the sets of an environment record E.               *)
(***************************************************************************)
EXTENDS Integers, Sequences, FiniteSets, TLC

\* ------------------------------------------------------------- bounds
\* sessions the uuid generator hands out in the general specification
MaxSessions == 2
\* questions loaded per tier in the specifications that use a short catalog
QuestionsPerTier == 1
\* transcript length up to which the general specification issues calls
MaxLog == 5
\* transcript length up to which the single-session specifications issue calls
MaxLogLong == 36
\* turns of the transcript kept; no specification that bounds its calls fills it
LogWindow == 40
\* turns of the transcript kept where calls are not bounded (the fair specification)
FairWindow == 5

\* ---------------------------------------------------------- constants
MAX_QUESTIONS == 15
TECHNICAL_WEIGHT == 40
DEPTH_WEIGHT == 25
PROBLEM_SOLVING_WEIGHT == 20
COMMUNICATION_WEIGHT == 15
\* one point, in the unit scores are kept in: the weights are held in percent
Pt == TECHNICAL_WEIGHT + DEPTH_WEIGHT + PROBLEM_SOLVING_WEIGHT + COMMUNICATION_WEIGHT
\* class Settings as shipped: the evaluation weights
Settings ==
    [ TECHNICAL_WEIGHT |-> TECHNICAL_WEIGHT, DEPTH_WEIGHT |-> DEPTH_WEIGHT,
      PROBLEM_SOLVING_WEIGHT |-> PROBLEM_SOLVING_WEIGHT,
      COMMUNICATION_WEIGHT |-> COMMUNICATION_WEIGHT ]

\* -------------------------------------------------------------- enums
InterviewPhase == <<"introduction", "assessment", "conclusion", "completed">>
QuestionDifficulty == <<"basic", "intermediate", "advanced">>
SkillLevel == <<"novice", "basic", "intermediate", "advanced", "expert">>

Index(seq, x) == CHOOSE i \in 1..Len(seq) : seq[i] = x
PhaseOrd(p) == Index(InterviewPhase, p)
TierOrd(t) == Index(QuestionDifficulty, t)

RECURSIVE SumSeq(_)
SumSeq(s) == IF s = <<>> THEN 0 ELSE Head(s) + SumSeq(Tail(s))

Min(a, b) == IF a <= b THEN a ELSE b

\* ------------------------------------------------------------ catalog
_load_basic_questions ==
    << [id |-> "basic_001", category |-> "Formulas & Functions"],
       [id |-> "basic_002", category |-> "Data Management"],
       [id |-> "basic_003", category |-> "Cell Formatting"],
       [id |-> "basic_004", category |-> "Basic Functions"],
       [id |-> "basic_005", category |-> "Data Entry"] >>

_load_intermediate_questions ==
    << [id |-> "inter_001", category |-> "Pivot Tables"],
       [id |-> "inter_002", category |-> "Advanced Formulas"],
       [id |-> "inter_003", category |-> "Conditional Logic"],
       [id |-> "inter_004", category |-> "Data Analysis"],
       [id |-> "inter_005", category |-> "Charts & Visualization"] >>

_load_advanced_questions ==
    << [id |-> "adv_001", category |-> "VBA & Automation"],
       [id |-> "adv_002", category |-> "Array Formulas"],
       [id |-> "adv_003", category |-> "Data Modeling"],
       [id |-> "adv_004", category |-> "Power Query"],
       [id |-> "adv_005", category |-> "Complex Analysis"] >>

Range(seq) == {seq[i] : i \in 1..Len(seq)}
Prefix(seq, k) == SubSeq(seq, 1, Min(k, Len(seq)))

\* ExcelQuestionBank.__init__: the three lists, cut to their first k questions
QuestionBankInit(k) ==
    [t \in Range(QuestionDifficulty) |->
        IF t = "basic" THEN Range(Prefix(_load_basic_questions, k))
        ELSE IF t = "intermediate" THEN Range(Prefix(_load_intermediate_questions, k))
        ELSE Range(Prefix(_load_advanced_questions, k))]

FullCatalog == Len(_load_basic_questions)

NoQuestion == [id |-> "None", category |-> "None"]
NoCategory == ""

\* ------------------------------------------------------------- state
VARIABLES
    active_interviews,  \* ExcelInterviewAgent.active_interviews: id -> InterviewState
    uuids,              \* session ids uuid4 has handed out so far
    questions,          \* ExcelQuestionBank.questions: tier -> question records
    used_questions,     \* ExcelQuestionBank.used_questions
    settings,           \* config.settings.settings: the rubric weights in force
    inflight,           \* caller -> the process_response call it is in the middle of
    last                \* the call that ran last and what it returned

vars == <<active_interviews, uuids, questions, used_questions, settings, inflight, last>>

NoLevel == {"None"}
Keywords == {"beginner", "new", "advanced", "expert"}

\* InterviewState as start_interview constructs it
NewInterviewState ==
    [ current_phase |-> "introduction",
      end_time |-> "None",
      experience_level |-> NoLevel,
      current_difficulty |-> "basic",
      questions_asked |-> <<>>,
      current_question_index |-> 0,
      conversation_history |-> <<>>,
      is_completed |-> FALSE ]

\* add_conversation that builds the turn and never stores it
add_conversation_NotStored(st, role, message, window) == st

\* InterviewState.add_conversation; of an unbounded transcript the model keeps
\* the last `window` turns (every bounded specification stops short of that)
add_conversation(st, role, message, window) ==
    LET e == [role |-> role, message |-> message]
        h == st.conversation_history
    IN [st EXCEPT !.conversation_history =
            IF Len(h) < window THEN Append(h, e) ELSE Append(Tail(h), e)]

\* add_response that overwrites the list with the new response
add_response_Overwrites(st, response) ==
    [st EXCEPT !.questions_asked = <<response>>,
               !.current_question_index = @ + 1]

\* add_response that counts the response and never stores it
add_response_NotStored(st, response) ==
    [st EXCEPT !.current_question_index = @ + 1]

\* InterviewState.add_response
add_response(st, response) ==
    [st EXCEPT !.questions_asked = Append(@, response),
               !.current_question_index = @ + 1]

Scores(st) == [i \in 1..Len(st.questions_asked) |-> st.questions_asked[i].score]

\* InterviewState.get_current_score, as the pair (sum, count); 0.0 when empty
get_current_score(st) ==
    [sum |-> SumSeq(Scores(st)), n |-> Len(st.questions_asked)]

\* InterviewState.get_category_performance: the mean score per recorded label
get_category_performance(st) ==
    LET labels == {st.questions_asked[i].category : i \in 1..Len(st.questions_asked)}
        of(cat) == SelectSeq(st.questions_asked, LAMBDA r : r.category = cat)
    IN [cat \in labels |->
           [sum |-> SumSeq([i \in 1..Len(of(cat)) |-> of(cat)[i].score]),
            n |-> Len(of(cat))]]

\* mean >= k points, mean < k points, for a (sum, count) pair; the empty mean is 0.0
MeanGE(m, k) == IF m.n = 0 THEN 0 >= k ELSE m.sum >= k * Pt * m.n
MeanLT(m, k) == ~MeanGE(m, k)

LastN(seq, n) == SubSeq(seq, Len(seq) - n + 1, Len(seq))

\* an escalation test that needs the recent mean to be above the threshold
should_increase_difficulty_Strict(st) ==
    IF Len(st.questions_asked) < 3 THEN FALSE
    ELSE LET avg_recent == [sum |-> SumSeq(LastN(Scores(st), 3)), n |-> 3]
         IN IF st.current_difficulty = "basic" /\ MeanGE(avg_recent, 75)
               /\ avg_recent.sum # 75 * Pt * 3 THEN TRUE
            ELSE IF st.current_difficulty = "intermediate" /\ MeanGE(avg_recent, 80)
               /\ avg_recent.sum # 80 * Pt * 3 THEN TRUE
            ELSE FALSE

\* InterviewState.should_increase_difficulty
should_increase_difficulty(st) ==
    IF Len(st.questions_asked) < 3 THEN FALSE
    ELSE LET avg_recent == [sum |-> SumSeq(LastN(Scores(st), 3)), n |-> 3]
         IN IF st.current_difficulty = "basic" /\ MeanGE(avg_recent, 75) THEN TRUE
            ELSE IF st.current_difficulty = "intermediate" /\ MeanGE(avg_recent, 80) THEN TRUE
            ELSE FALSE

\* InterviewState.should_decrease_difficulty
should_decrease_difficulty(st) ==
    IF Len(st.questions_asked) < 2 THEN FALSE
    ELSE LET avg_recent == [sum |-> SumSeq(LastN(Scores(st), 2)), n |-> 2]
         IN IF st.current_difficulty = "advanced" /\ MeanLT(avg_recent, 60) THEN TRUE
            ELSE IF st.current_difficulty = "intermediate" /\ MeanLT(avg_recent, 50) THEN TRUE
            ELSE FALSE

\* ------------------------------------------------------ question bank
\* str.lower on a category: of the catalog's spellings and of the other
\* spellings callers pass (lower case already, upper case, not in the catalog)
category_lower(category) ==
    CASE category = "Formulas & Functions" -> "formulas & functions"
      [] category = "FORMULAS & FUNCTIONS" -> "formulas & functions"
      [] category = "Data Management" -> "data management"
      [] category = "Cell Formatting" -> "cell formatting"
      [] category = "Basic Functions" -> "basic functions"
      [] category = "Data Entry" -> "data entry"
      [] category = "Pivot Tables" -> "pivot tables"
      [] category = "Advanced Formulas" -> "advanced formulas"
      [] category = "Conditional Logic" -> "conditional logic"
      [] category = "Data Analysis" -> "data analysis"
      [] category = "Charts & Visualization" -> "charts & visualization"
      [] category = "VBA & Automation" -> "vba & automation"
      [] category = "Array Formulas" -> "array formulas"
      [] category = "Data Modeling" -> "data modeling"
      [] category = "Power Query" -> "power query"
      [] category = "Complex Analysis" -> "complex analysis"
      [] category = "General Excel" -> "general excel"
      [] category = "Macros" -> "macros"
      [] OTHER -> category

\* get_question that compares the category as spelled
get_question_CaseSensitive(qs, used, difficulty, category, exclude_used) ==
    LET byCategory == IF category # NoCategory
                      THEN {q \in qs[difficulty] : q.category = category}
                      ELSE qs[difficulty]
        available_questions == IF exclude_used
                               THEN {q \in byCategory : q.id \notin used}
                               ELSE byCategory
    IN IF available_questions = {} THEN {NoQuestion} ELSE available_questions

\* ExcelQuestionBank.get_question: the questions random.choice may select, or
\* {NoQuestion} when none survives the filters; the caller marks the one drawn
get_question(qs, used, difficulty, category, exclude_used) ==
    LET byCategory == IF category # NoCategory
                      THEN {q \in qs[difficulty] :
                               category_lower(q.category) = category_lower(category)}
                      ELSE qs[difficulty]
        available_questions == IF exclude_used
                               THEN {q \in byCategory : q.id \notin used}
                               ELSE byCategory
    IN IF available_questions = {} THEN {NoQuestion} ELSE available_questions

\* a selection that is handed out and never marked used
MarkUsed_Forgets(used, q) == used

\* self.used_questions.add(selected_question["id"])
MarkUsed(used, q) == IF q = NoQuestion THEN used ELSE used \cup {q.id}

\* a target tier that steps up only above 80 and down already at 50
next_difficulty_OffThresholds(current_performance, current_difficulty) ==
    IF MeanGE(current_performance, 80) /\ current_performance.sum # 80 * Pt * current_performance.n
       /\ current_difficulty # "advanced"
    THEN (IF current_difficulty = "basic" THEN "intermediate" ELSE "advanced")
    ELSE IF (MeanLT(current_performance, 50)
               \/ current_performance.sum = 50 * Pt * current_performance.n)
            /\ current_difficulty # "basic"
    THEN (IF current_difficulty = "advanced" THEN "intermediate" ELSE "basic")
    ELSE current_difficulty

\* the tier get_adaptive_question draws from
next_difficulty(current_performance, current_difficulty) ==
    IF MeanGE(current_performance, 80) /\ current_difficulty # "advanced"
    THEN (IF current_difficulty = "basic" THEN "intermediate" ELSE "advanced")
    ELSE IF MeanLT(current_performance, 50) /\ current_difficulty # "basic"
    THEN (IF current_difficulty = "advanced" THEN "intermediate" ELSE "basic")
    ELSE current_difficulty

all_categories(qs) == {q.category : q \in UNION {qs[t] : t \in DOMAIN qs}}

\* get_adaptive_question that gives up when the category tried has no question
get_adaptive_question_NoFallback(qs, used, current_performance, current_difficulty, answered_categories) ==
    LET target == next_difficulty(current_performance, current_difficulty)
        unexplored_categories == all_categories(qs) \ answered_categories
    IN IF unexplored_categories # {}
       THEN UNION { get_question(qs, used, target, category, TRUE)
                    : category \in unexplored_categories }
       ELSE get_question(qs, used, target, NoCategory, TRUE)

\* ExcelQuestionBank.get_adaptive_question: the questions it may return
get_adaptive_question(qs, used, current_performance, current_difficulty, answered_categories) ==
    LET target == next_difficulty(current_performance, current_difficulty)
        unexplored_categories == all_categories(qs) \ answered_categories
        fallback == get_question(qs, used, target, NoCategory, TRUE)
    IN IF unexplored_categories # {}
       THEN UNION { LET question == get_question(qs, used, target, category, TRUE)
                    IN IF question # {NoQuestion} THEN question ELSE fallback
                    : category \in unexplored_categories }
       ELSE fallback

\* ---------------------------------------------------------- evaluator
ScoreBreakdown(t, d, p, c, o) ==
    [ technical_score |-> t, depth_score |-> d, problem_solving_score |-> p,
      communication_score |-> c, overall_score |-> o ]

\* the rubric's weighted sum of four sub-scores
Weighted(t, d, p, c) ==
    (t * settings.TECHNICAL_WEIGHT + d * settings.DEPTH_WEIGHT
       + p * settings.PROBLEM_SOLVING_WEIGHT + c * settings.COMMUNICATION_WEIGHT) \div Pt

\* what llm_client.evaluate_answer hands back: a dictionary with the four scores
\* (whole points), the transport's error dictionary, or JSON of another shape
LlmScores(t, d, p, c) == [kind |-> "scores", t |-> t, d |-> d, p |-> p, c |-> c]
LlmErrorDict == [kind |-> "error_dict", t |-> 0, d |-> 0, p |-> 0, c |-> 0]
LlmMalformed == [kind |-> "malformed", t |-> 0, d |-> 0, p |-> 0, c |-> 0]

\* ExcelAnswerEvaluator._create_fallback_evaluation; answer is its trimmed length
_create_fallback_evaluation(answer) ==
    LET technical_score == Min(70, answer * 2)
    IN [ scores |-> ScoreBreakdown(technical_score * Pt, technical_score * 90,
                                   technical_score * 80, technical_score * 85,
                                   technical_score * 88),
         feedback |-> "Evaluation completed with basic analysis due to system limitations." ]

\* ExcelAnswerEvaluator.evaluate_answer on the transport's outcome o
evaluate_answer(o, answer) ==
    IF o.kind = "malformed" THEN _create_fallback_evaluation(answer)
    ELSE LET t == IF o.kind = "scores" THEN o.t * Pt ELSE 0
             d == IF o.kind = "scores" THEN o.d * Pt ELSE 0
             p == IF o.kind = "scores" THEN o.p * Pt ELSE 0
             c == IF o.kind = "scores" THEN o.c * Pt ELSE 0
         IN [ scores |-> ScoreBreakdown(t, d, p, c, Weighted(t, d, p, c)),
              feedback |-> IF o.kind = "scores" THEN "llm feedback"
                           ELSE "No detailed feedback available" ]

\* ExcelAnswerEvaluator.get_real_time_feedback: the band's opening words
get_real_time_feedback(score) ==
    IF score >= 85 * Pt THEN "Excellent answer!"
    ELSE IF score >= 70 * Pt THEN "Good response."
    ELSE IF score >= 55 * Pt THEN "Decent answer."
    ELSE IF score >= 40 * Pt THEN "Basic understanding shown."
    ELSE "This area needs work."

\* an averaged score: the mean sum/n of n values, kept as the pair
Mean(sum, n) == [sum |-> sum, n |-> n]

\* an aggregate whose overall score is the mean of the questions' overall scores
_calculate_aggregate_scores_MeanOfOveralls(evaluations) ==
    LET count == Len(evaluations)
        total(field) == SumSeq([i \in 1..count |-> evaluations[i].scores[field]])
    IN ScoreBreakdown(Mean(total("technical_score"), count), Mean(total("depth_score"), count),
                      Mean(total("problem_solving_score"), count),
                      Mean(total("communication_score"), count),
                      Mean(total("overall_score"), count))

\* ExcelAnswerEvaluator._calculate_aggregate_scores (non-empty list): each
\* sub-score averaged, overall the weighted sum of the four averages
_calculate_aggregate_scores(evaluations) ==
    LET count == Len(evaluations)
        technical_total == SumSeq([i \in 1..count |-> evaluations[i].scores.technical_score])
        depth_total == SumSeq([i \in 1..count |-> evaluations[i].scores.depth_score])
        problem_solving_total ==
            SumSeq([i \in 1..count |-> evaluations[i].scores.problem_solving_score])
        communication_total ==
            SumSeq([i \in 1..count |-> evaluations[i].scores.communication_score])
    IN ScoreBreakdown(Mean(technical_total, count), Mean(depth_total, count),
                      Mean(problem_solving_total, count), Mean(communication_total, count),
                      Mean(technical_total * settings.TECHNICAL_WEIGHT
                             + depth_total * settings.DEPTH_WEIGHT
                             + problem_solving_total * settings.PROBLEM_SOLVING_WEIGHT
                             + communication_total * settings.COMMUNICATION_WEIGHT,
                           count * Pt))

\* the bands with every boundary score sent to the band below
_determine_skill_level_Strict(overall_score) ==
    IF MeanGE(overall_score, 90) /\ overall_score.sum # 90 * Pt * overall_score.n THEN "expert"
    ELSE IF MeanGE(overall_score, 75) /\ overall_score.sum # 75 * Pt * overall_score.n
    THEN "advanced"
    ELSE IF MeanGE(overall_score, 60) /\ overall_score.sum # 60 * Pt * overall_score.n
    THEN "intermediate"
    ELSE IF MeanGE(overall_score, 40) /\ overall_score.sum # 40 * Pt * overall_score.n
    THEN "basic"
    ELSE "novice"

\* ExcelAnswerEvaluator._determine_skill_level
_determine_skill_level(overall_score) ==
    IF MeanGE(overall_score, 90) THEN "expert"
    ELSE IF MeanGE(overall_score, 75) THEN "advanced"
    ELSE IF MeanGE(overall_score, 60) THEN "intermediate"
    ELSE IF MeanGE(overall_score, 40) THEN "basic"
    ELSE "novice"

\* ExcelAnswerEvaluator._calculate_category_performance: every evaluation is
\* filed under the one label "Excel Skills"
_calculate_category_performance(evaluations) ==
    LET labels == IF Len(evaluations) = 0 THEN {} ELSE {"Excel Skills"}
    IN [category \in labels |->
           Mean(SumSeq([i \in 1..Len(evaluations) |-> evaluations[i].scores.overall_score]),
                Len(evaluations))]

\* ExcelAnswerEvaluator._analyze_improvement_trend: scores[:n//3] against
\* scores[-n//3:], which Python reads as scores[(-n)//3:]
_analyze_improvement_trend(evaluations) ==
    LET n == Len(evaluations)
        scores == [i \in 1..n |-> evaluations[i].scores.overall_score]
        k1 == n \div 3
        k2 == (n + 2) \div 3
        first_sum == SumSeq(SubSeq(scores, 1, k1))
        last_sum == SumSeq(LastN(scores, k2))
    IN IF n < 3 THEN "stable"
       ELSE IF last_sum * k1 - first_sum * k2 > 5 * Pt * k1 * k2 THEN "improving"
       ELSE IF last_sum * k1 - first_sum * k2 < (-5) * Pt * k1 * k2 THEN "declining"
       ELSE "stable"

\* ExcelAnswerEvaluator._create_minimal_evaluation
_create_minimal_evaluation ==
    [ overall_scores |-> ScoreBreakdown(Mean(50 * Pt, 1), Mean(50 * Pt, 1), Mean(50 * Pt, 1),
                                        Mean(50 * Pt, 1), Mean(50 * Pt, 1)),
      skill_level |-> "basic",
      category_performance |-> [category \in {"Excel Skills"} |-> Mean(50 * Pt, 1)],
      question_evaluations |-> 0,
      improvement_trend |-> "stable",
      narrative |-> "minimal" ]

\* evaluate_interview without the test for an empty list of evaluations
evaluate_interview_NoEmptyCheck(st, evs, summary) ==
    LET n == Len(st.questions_asked)
        question_evaluations ==
            [i \in 1..n |-> evaluate_answer(evs[i], st.questions_asked[i].answer)]
        overall_scores == _calculate_aggregate_scores(question_evaluations)
    IN IF summary = "non_dict" THEN _create_minimal_evaluation
       ELSE [ overall_scores |-> overall_scores,
              skill_level |-> _determine_skill_level(overall_scores.overall_score),
              category_performance |-> _calculate_category_performance(question_evaluations),
              question_evaluations |-> n,
              improvement_trend |-> _analyze_improvement_trend(question_evaluations),
              narrative |-> IF summary = "ok" THEN "llm"
                            ELSE IF summary = "error_dict" THEN "defaults"
                            ELSE "bad_lists" ]

\* ExcelAnswerEvaluator.evaluate_interview.  evs[i] is the transport's outcome
\* when response i is scored again; summary is what generate_interview_summary
\* hands back: "ok" (the three lists), "error_dict" (the transport's error
\* dictionary: every list defaulted), "non_dict" (JSON that is no object:
\* .get raises), "bad_lists" (an object whose lists are null or hold no strings)
evaluate_interview(st, evs, summary) ==
    LET n == Len(st.questions_asked)
        question_evaluations ==
            [i \in 1..n |-> evaluate_answer(evs[i], st.questions_asked[i].answer)]
        overall_scores == _calculate_aggregate_scores(question_evaluations)
    IN IF n = 0 THEN _create_minimal_evaluation
       ELSE IF summary = "non_dict" THEN _create_minimal_evaluation
       ELSE [ overall_scores |-> overall_scores,
              skill_level |-> _determine_skill_level(overall_scores.overall_score),
              category_performance |-> _calculate_category_performance(question_evaluations),
              question_evaluations |-> n,
              improvement_trend |-> _analyze_improvement_trend(question_evaluations),
              narrative |-> IF summary = "ok" THEN "llm"
                            ELSE IF summary = "error_dict" THEN "defaults"
                            ELSE "bad_lists" ]

\* -------------------------------------------------------------- agent
\* texts: a user utterance is its trimmed length; a text the language model
\* wrote is what it was asked for and whether it holds a question mark
UserMsg(u) == [kind |-> "user", mark |-> FALSE, len |-> u]
LlmText(kind, mark) == [kind |-> kind, mark |-> mark, len |-> 0]

\* what a call returns: the text (real-time feedback, then the body), the
\* metadata, whether a (text, metadata) pair came back at all, and whether the
\* handler's except clause produced it
EmptyEval == [present |-> FALSE, overall_score |-> Mean(0, 1), skill_level |-> "",
              narrative |-> ""]
Meta(phase, question_number, current_difficulty, evaluation) ==
    [ phase |-> phase, question_number |-> question_number,
      current_difficulty |-> current_difficulty, evaluation |-> evaluation ]
EmptyMeta == Meta("", 0, "", EmptyEval)
Ret(op, sid, phase0, feedback, body, meta, pair, handled) ==
    [ op |-> op, sid |-> sid, phase0 |-> phase0, feedback |-> feedback, body |-> body,
      meta |-> meta, pair |-> pair, handled |-> handled ]

SessionNotFound == "Session not found. Please restart the interview."
InterviewCompleted == "Interview completed. Thank you for your time!"
LoadingIssue == "I apologize, but there was an issue loading questions. Please try again."
GenericContinue == "Thank you for your response. Let me ask you another question."
ConclusionFallback ==
    "Thank you for completing the interview. Your performance will be evaluated and a report will be generated."
WelcomeNotFound ==
    "I'm sorry, but I couldn't find your interview session. Please restart the interview."

\* str.lower on a word of the label, and on the label (the words it holds, as spelled)
lower(word) ==
    CASE word = "Beginner" -> "beginner"
      [] word = "NEW" -> "new"
      [] word = "Advanced" -> "advanced"
      [] word = "EXPERT" -> "expert"
      [] word = "Intermediate" -> "intermediate"
      [] OTHER -> word
Lower(experience_level) == {lower(word) : word \in experience_level}

\* the starting tier taken to be the level the candidate names
InitialDifficulty_AsNamed(experience_level) ==
    IF "beginner" \in Lower(experience_level) \/ "new" \in Lower(experience_level)
    THEN "basic"
    ELSE IF "advanced" \in Lower(experience_level) \/ "expert" \in Lower(experience_level)
    THEN "advanced"
    ELSE "basic"

\* the starting tier from keyword tests that forget to lower-case the label
InitialDifficulty_CaseSensitive(experience_level) ==
    IF "beginner" \in experience_level \/ "new" \in experience_level THEN "basic"
    ELSE IF "advanced" \in experience_level \/ "expert" \in experience_level
    THEN "intermediate"
    ELSE "basic"

\* the tier the introduction sets from the experience label; the label is the
\* set of the tested keywords its lower-cased text contains
InitialDifficulty(experience_level) ==
    IF "beginner" \in Lower(experience_level) \/ "new" \in Lower(experience_level)
    THEN "basic"
    ELSE IF "advanced" \in Lower(experience_level) \/ "expert" \in Lower(experience_level)
    THEN "intermediate"
    ELSE "basic"

\* ExcelInterviewAgent._get_current_question_from_conversation
NoCurrentQuestion == [id |-> -1, question |-> LlmText("", FALSE)]
_get_current_question_from_conversation(st) ==
    LET conversation == st.conversation_history
        hits == {i \in 1..Len(conversation) :
                    conversation[i].role = "assistant" /\ conversation[i].message.mark}
    IN IF hits = {} THEN NoCurrentQuestion
       ELSE LET i == CHOOSE j \in hits : \A k \in hits : k <= j
            IN [id |-> Len(st.questions_asked), question |-> conversation[i].message]

\* an adaptation whose escalation from basic goes straight to advanced
AdjustDifficulty_SkipsTier(st) ==
    IF should_increase_difficulty(st)
    THEN [st EXCEPT !.current_difficulty = "advanced"]
    ELSE IF should_decrease_difficulty(st)
    THEN [st EXCEPT !.current_difficulty = "basic"]
    ELSE st

\* lines 183-192 of _handle_assessment_phase: the difficulty adaptation
AdjustDifficulty(st) ==
    IF should_increase_difficulty(st)
    THEN (IF st.current_difficulty = "basic"
          THEN [st EXCEPT !.current_difficulty = "intermediate"]
          ELSE IF st.current_difficulty = "intermediate"
          THEN [st EXCEPT !.current_difficulty = "advanced"]
          ELSE st)
    ELSE IF should_decrease_difficulty(st)
    THEN (IF st.current_difficulty = "advanced"
          THEN [st EXCEPT !.current_difficulty = "intermediate"]
          ELSE IF st.current_difficulty = "intermediate"
          THEN [st EXCEPT !.current_difficulty = "basic"]
          ELSE st)
    ELSE st

\* line 312 of _generate_next_question_flow: the labels of the recorded responses
AnsweredCategories(st) ==
    {st.questions_asked[i].category : i \in 1..Len(st.questions_asked)}

\* ExcelInterviewAgent._generate_conclusion_message
_generate_conclusion_message(st, mark, window) ==
    add_conversation(st, "assistant", LlmText("conclusion", mark), window)

\* the flow that closes the interview outright when no question is left
FlowResult_ClosesOutright(st, used, next_question, mark, window) ==
    IF next_question = NoQuestion
    THEN [ st |-> _generate_conclusion_message(
                      [st EXCEPT !.current_phase = "completed"], mark, window),
           used |-> used, body |-> "conclusion", meta |-> EmptyMeta, pair |-> FALSE ]
    ELSE [ st |-> add_conversation(st, "assistant", LlmText("question", mark), window),
           used |-> MarkUsed(used, next_question),
           body |-> "question",
           meta |-> Meta("assessment", Len(st.questions_asked) + 1,
                         st.current_difficulty, EmptyEval),
           pair |-> TRUE ]

\* a flow that moves the session to the tier the selected question came from
FlowResult_WritesTarget(st, used, next_question, mark, window) ==
    IF next_question = NoQuestion
    THEN [ st |-> _generate_conclusion_message(
                      [st EXCEPT !.current_phase = "conclusion"], mark, window),
           used |-> used, body |-> "conclusion", meta |-> EmptyMeta, pair |-> FALSE ]
    ELSE LET target == CHOOSE t \in DOMAIN questions : next_question \in questions[t]
             st1 == [st EXCEPT !.current_difficulty = target]
         IN [ st |-> add_conversation(st1, "assistant", LlmText("question", mark), window),
              used |-> MarkUsed(used, next_question),
              body |-> "question",
              meta |-> Meta("assessment", Len(st.questions_asked) + 1, target, EmptyEval),
              pair |-> TRUE ]

\* ExcelInterviewAgent._generate_next_question_flow once the selector has drawn
\* next_question: what it leaves of the session and the used set, and what it
\* returns -- a (text, metadata) pair, or the bare conclusion text (pair FALSE)
FlowResult(st, used, next_question, mark, window) ==
    IF next_question = NoQuestion
    THEN [ st |-> _generate_conclusion_message(
                      [st EXCEPT !.current_phase = "conclusion"], mark, window),
           used |-> used, body |-> "conclusion", meta |-> EmptyMeta, pair |-> FALSE ]
    ELSE [ st |-> add_conversation(st, "assistant", LlmText("question", mark), window),
           used |-> MarkUsed(used, next_question),
           body |-> "question",
           meta |-> Meta("assessment", Len(st.questions_asked) + 1,
                         st.current_difficulty, EmptyEval),
           pair |-> TRUE ]

_generate_next_question_flow(st, qs, used, marks, window) ==
    LET current_performance == get_current_score(st)
        answered_categories == AnsweredCategories(st)
    IN { FlowResult(st, used, next_question, mark, window) :
            next_question \in get_adaptive_question(qs, used, current_performance,
                                                    st.current_difficulty,
                                                    answered_categories),
            mark \in marks }

\* ------------------------------------------------------------ actions
\* a write that lands in every session of the registry
Put_Everywhere(sid, st) == [i \in DOMAIN active_interviews |-> st]

\* the session object of sid, mutated in place or filed, becomes st
Put(sid, st) == [active_interviews EXCEPT ![sid] = st]

\* a start that files the new session and starts every other session afresh
start_interview_ResetsOthers(cap) ==
    /\ Cardinality(uuids) < cap
    /\ LET session_id == Cardinality(uuids) + 1
       IN /\ uuids' = uuids \cup {session_id}
          /\ active_interviews' =
                [i \in DOMAIN active_interviews \cup {session_id} |-> NewInterviewState]
          /\ last' = Ret("start_interview", session_id, "", "", "", EmptyMeta, FALSE, FALSE)
    /\ UNCHANGED <<questions, settings, inflight, used_questions>>

\* ExcelInterviewAgent.start_interview; uuid4 hands out an id never used before
start_interview(cap) ==
    /\ Cardinality(uuids) < cap
    /\ LET session_id == Cardinality(uuids) + 1
       IN /\ uuids' = uuids \cup {session_id}
          /\ active_interviews' =
                [i \in DOMAIN active_interviews \cup {session_id} |->
                    IF i = session_id THEN NewInterviewState ELSE active_interviews[i]]
          /\ last' = Ret("start_interview", session_id, "", "", "", EmptyMeta, FALSE, FALSE)
    /\ UNCHANGED <<questions, settings, inflight, used_questions>>

\* ExcelInterviewAgent.get_welcome_message, called as the front end calls it:
\* once, before the first utterance
get_welcome_message(sid, E) ==
    /\ \/ /\ sid \notin DOMAIN active_interviews
          /\ last' = Ret("get_welcome_message", sid, "", "", WelcomeNotFound, EmptyMeta,
                         FALSE, FALSE)
          /\ UNCHANGED active_interviews
       \/ /\ sid \in DOMAIN active_interviews
          /\ active_interviews[sid].conversation_history = <<>>
          /\ \E mark \in E.marks :
                /\ active_interviews' =
                      Put(sid, add_conversation(active_interviews[sid], "assistant",
                                                LlmText("welcome", mark), E.window))
                /\ last' = Ret("get_welcome_message", sid,
                               active_interviews[sid].current_phase, "", "welcome",
                               EmptyMeta, FALSE, FALSE)
    /\ UNCHANGED <<uuids, questions, settings, inflight, used_questions>>

\* ExcelInterviewAgent._handle_introduction_phase; st0 already holds the utterance
_handle_introduction_phase(sid, st0, E) ==
    \E experience_level \in E.labels, mark \in E.marks :
      LET st1 == [st0 EXCEPT !.experience_level = experience_level,
                             !.current_difficulty = InitialDifficulty(experience_level),
                             !.current_phase = "assessment"]
      IN \E first_question \in
               get_question(questions, used_questions, st1.current_difficulty,
                            NoCategory, TRUE) :
            IF first_question = NoQuestion
            THEN /\ active_interviews' = Put(sid, st1)
                 /\ used_questions' = used_questions
                 /\ last' = Ret("process_response", sid, "introduction", "", LoadingIssue,
                                EmptyMeta, TRUE, FALSE)
            ELSE /\ active_interviews' =
                       Put(sid, add_conversation(st1, "assistant",
                                                 LlmText("transition", mark), E.window))
                 /\ used_questions' = MarkUsed(used_questions, first_question)
                 /\ last' = Ret("process_response", sid, "introduction", "", "transition",
                                Meta("assessment", 1, st1.current_difficulty, EmptyEval),
                                TRUE, FALSE)

\* the budget test that lets one response too many through
BudgetReached_OffByOne(st) == Len(st.questions_asked) > MAX_QUESTIONS

\* line 177 of _handle_assessment_phase: the question budget is used up
BudgetReached(st) == Len(st.questions_asked) >= MAX_QUESTIONS

\* ExcelInterviewAgent._handle_assessment_phase; u is the utterance
_handle_assessment_phase(sid, st0, u, E) ==
    LET current_question == _get_current_question_from_conversation(st0)
    IN IF current_question = NoCurrentQuestion
       THEN \* line 145: the flow's result is returned as it is, outside the try
            \E f \in _generate_next_question_flow(st0, questions, used_questions, E.marks,
                                                 E.window) :
               /\ active_interviews' = Put(sid, f.st)
               /\ used_questions' = f.used
               /\ last' = Ret("process_response", sid, "assessment", "", f.body, f.meta,
                              f.pair, FALSE)
       ELSE \E o \in E.evals :
              LET evaluation == evaluate_answer(o, u)
                  question_response ==
                      [ question_id |-> current_question.id,
                        question |-> current_question.question,
                        answer |-> u,
                        score |-> evaluation.scores.overall_score,
                        feedback |-> evaluation.feedback,
                        category |-> "General Excel",
                        difficulty |-> st0.current_difficulty ]
                  st1 == add_response(st0, question_response)
                  feedback_message == get_real_time_feedback(evaluation.scores.overall_score)
              IN IF BudgetReached(st1)
                 THEN \E mark \in E.marks :
                        /\ active_interviews' =
                              Put(sid, _generate_conclusion_message(
                                           [st1 EXCEPT !.current_phase = "conclusion"], mark,
                                           E.window))
                        /\ used_questions' = used_questions
                        /\ last' = Ret("process_response", sid, "assessment", "",
                                       "conclusion", Meta("conclusion", 0, "", EmptyEval),
                                       TRUE, FALSE)
                 ELSE \E f \in _generate_next_question_flow(AdjustDifficulty(st1), questions,
                                                           used_questions, E.marks, E.window) :
                        /\ active_interviews' = Put(sid, f.st)
                        /\ used_questions' = f.used
                        /\ last' =
                              IF f.pair
                              THEN Ret("process_response", sid, "assessment",
                                       feedback_message, f.body, f.meta, TRUE, FALSE)
                              \* line 195 unpacks a bare text: ValueError, lines 202-204
                              ELSE Ret("process_response", sid, "assessment", "",
                                       GenericContinue, EmptyMeta, TRUE, TRUE)

\* ExcelInterviewAgent._generate_interview_summary raises on lists that cannot be
\* sliced and joined
SummaryRaises(interview_evaluation) == interview_evaluation.narrative = "bad_lists"

\* a completion that sets the flag and the end time and leaves the phase
MarkCompleted_KeepsPhase(st) ==
    [st EXCEPT !.is_completed = TRUE, !.end_time = "set"]

\* lines 221-223 of _handle_conclusion_phase
MarkCompleted(st) ==
    [st EXCEPT !.is_completed = TRUE, !.end_time = "set", !.current_phase = "completed"]

\* ExcelInterviewAgent._handle_conclusion_phase
_handle_conclusion_phase(sid, st0, E) ==
    \E evs \in [1..Len(st0.questions_asked) -> E.reevals], summary \in E.summaries :
      LET interview_evaluation == evaluate_interview(st0, evs, summary)
      IN /\ used_questions' = used_questions
         /\ IF SummaryRaises(interview_evaluation)
            THEN /\ active_interviews' = Put(sid, st0)
                 /\ last' = Ret("process_response", sid, "conclusion", "",
                                ConclusionFallback, Meta("completed", 0, "", EmptyEval),
                                TRUE, TRUE)
            ELSE /\ active_interviews' = Put(sid, MarkCompleted(st0))
                 /\ last' = Ret("process_response", sid, "conclusion", "", "summary",
                                Meta("completed", 0, "",
                                     [ present |-> TRUE,
                                       overall_score |->
                                           interview_evaluation.overall_scores.overall_score,
                                       skill_level |-> interview_evaluation.skill_level,
                                       narrative |-> interview_evaluation.narrative ]),
                                TRUE, FALSE)

\* ExcelInterviewAgent.process_response
process_response(sid, u, E) ==
    /\ UNCHANGED <<uuids, questions, settings, inflight>>
    /\ \/ /\ sid \notin DOMAIN active_interviews
          /\ last' = Ret("process_response", sid, "", "", SessionNotFound, EmptyMeta,
                         TRUE, FALSE)
          /\ UNCHANGED <<active_interviews, used_questions>>
       \/ /\ sid \in DOMAIN active_interviews
          /\ Len(active_interviews[sid].conversation_history) < E.maxlog
          /\ LET interview_state == active_interviews[sid]
                 st0 == add_conversation(interview_state, "user", UserMsg(u), E.window)
             IN \/ /\ interview_state.current_phase = "introduction"
                   /\ _handle_introduction_phase(sid, st0, E)
                \/ /\ interview_state.current_phase = "assessment"
                   /\ _handle_assessment_phase(sid, st0, u, E)
                \/ /\ interview_state.current_phase = "conclusion"
                   /\ _handle_conclusion_phase(sid, st0, E)
                \/ /\ interview_state.current_phase = "completed"
                   /\ active_interviews' = Put(sid, st0)
                   /\ used_questions' = used_questions
                   /\ last' = Ret("process_response", sid, "completed", "",
                                  InterviewCompleted, Meta("completed", 0, "", EmptyEval),
                                  TRUE, FALSE)

\* a cleanup that empties the registry
cleanup_session_ClearsAll(sid) ==
    /\ active_interviews' = <<>>
    /\ last' = Ret("cleanup_session", sid, "", "", "", EmptyMeta, FALSE, FALSE)
    /\ UNCHANGED <<uuids, questions, settings, inflight, used_questions>>

\* a cleanup that hands the catalog's used ids back
cleanup_session_ReleasesQuestions(sid) ==
    /\ active_interviews' =
          [i \in DOMAIN active_interviews \ {sid} |-> active_interviews[i]]
    /\ used_questions' = {}
    /\ last' = Ret("cleanup_session", sid, "", "", "", EmptyMeta, FALSE, FALSE)
    /\ UNCHANGED <<uuids, questions, settings, inflight>>

\* ExcelInterviewAgent.cleanup_session
cleanup_session(sid) ==
    /\ active_interviews' =
          [i \in DOMAIN active_interviews \ {sid} |-> active_interviews[i]]
    /\ last' = Ret("cleanup_session", sid, "", "", "", EmptyMeta, FALSE, FALSE)
    /\ UNCHANGED <<uuids, questions, settings, inflight, used_questions>>

\* active_interviews.get(session_id) for an id that is not a key: None
NoInterviewState == [current_phase |-> "None"]

\* a lookup that files a fresh session under an id it does not know
get_interview_state_Creates(sid) ==
    /\ last' = [ op |-> "get_interview_state", sid |-> sid,
                 result |-> IF sid \in DOMAIN active_interviews
                            THEN active_interviews[sid] ELSE NewInterviewState ]
    /\ active_interviews' =
          [i \in DOMAIN active_interviews \cup {sid} |->
              IF i \in DOMAIN active_interviews THEN active_interviews[i]
              ELSE NewInterviewState]
    /\ UNCHANGED <<uuids, questions, settings, inflight, used_questions>>

\* ExcelInterviewAgent.get_interview_state: the session, or None
get_interview_state(sid) ==
    /\ last' = [ op |-> "get_interview_state", sid |-> sid,
                 result |-> IF sid \in DOMAIN active_interviews
                            THEN active_interviews[sid] ELSE NoInterviewState ]
    /\ UNCHANGED <<active_interviews, uuids, questions, settings, inflight, used_questions>>

\* the dictionary get_interview_progress returns for an unknown id
ProgressNotFound == [error |-> "Session not found"]

\* ExcelInterviewAgent.get_interview_progress (candidate name and elapsed time
\* left out); category_performance is present once a response is recorded
get_interview_progress(sid) ==
    /\ last' =
          [ op |-> "get_interview_progress", sid |-> sid,
            result |->
               IF sid \notin DOMAIN active_interviews THEN ProgressNotFound
               ELSE LET interview_state == active_interviews[sid]
                    IN [ session_id |-> sid,
                         phase |-> interview_state.current_phase,
                         questions_answered |-> Len(interview_state.questions_asked),
                         current_score |-> get_current_score(interview_state),
                         difficulty_level |-> interview_state.current_difficulty,
                         is_completed |-> interview_state.is_completed,
                         has_category_performance |->
                            interview_state.questions_asked # <<>>,
                         category_performance |->
                            get_category_performance(interview_state) ] ]
    /\ UNCHANGED <<active_interviews, uuids, questions, settings, inflight, used_questions>>

\* ExcelQuestionBank.reset_used_questions
reset_used_questions ==
    /\ used_questions' = {}
    /\ last' = Ret("reset_used_questions", 0, "", "", "", EmptyMeta, FALSE, FALSE)
    /\ UNCHANGED <<active_interviews, uuids, questions, settings, inflight>>

\* ------------------------------------------- calls that can interleave
\* process_response is a coroutine with no lock and no in-flight flag: between
\* its entry and its return it waits on the transport (lines 103, 123, 149,
\* 179, 215, 218, 324, 342), and while one caller waits another caller's call
\* runs.  A frame is what a caller holds across such a wait: the session it
\* looked up, the utterance, the place it waits at, and its locals.
Frame(sid, u, phase0, pc) ==
    [ sid |-> sid, u |-> u, phase0 |-> phase0, pc |-> pc,
      current_question |-> NoCurrentQuestion,
      feedback_message |-> "", in_try |-> FALSE, evaluation |-> EmptyEval ]

Suspend(t, frame) ==
    [c \in DOMAIN inflight \cup {t} |-> IF c = t THEN frame ELSE inflight[c]]
Finish(t) == [c \in DOMAIN inflight \ {t} |-> inflight[c]]

\* _generate_next_question_flow up to its wait (lines 311-324 or 311-342):
\* the selection is made and marked, and on an empty selection the phase is set
flow_until_wait(t, f, st, E) ==
    LET current_performance == get_current_score(st)
        answered_categories == AnsweredCategories(st)
    IN \E next_question \in get_adaptive_question(questions, used_questions,
                                                  current_performance,
                                                  st.current_difficulty,
                                                  answered_categories) :
          /\ used_questions' = MarkUsed(used_questions, next_question)
          /\ IF next_question = NoQuestion
             THEN /\ active_interviews' =
                        Put(f.sid, [st EXCEPT !.current_phase = "conclusion"])
                  /\ inflight' =
                        Suspend(t, [f EXCEPT !.pc = "flow: _generate_conclusion_message"])
             ELSE /\ active_interviews' = Put(f.sid, st)
                  /\ inflight' = Suspend(t, [f EXCEPT !.pc = "question_message"])
          /\ last' = last

\* lines 78-91 and the handler entered, up to its first wait
process_response_begin(t, sid, u, E) ==
    /\ t \notin DOMAIN inflight
    /\ UNCHANGED <<uuids, questions, settings>>
    /\ \/ /\ sid \notin DOMAIN active_interviews
          /\ last' = Ret("process_response", sid, "", "", SessionNotFound, EmptyMeta,
                         TRUE, FALSE)
          /\ UNCHANGED <<active_interviews, used_questions, inflight>>
       \/ /\ sid \in DOMAIN active_interviews
          /\ Len(active_interviews[sid].conversation_history) < E.maxlog
          /\ LET interview_state == active_interviews[sid]
                 st0 == add_conversation(interview_state, "user", UserMsg(u), E.window)
             IN \/ /\ interview_state.current_phase = "introduction"
                   /\ active_interviews' = Put(sid, st0)
                   /\ inflight' = Suspend(t, Frame(sid, u, "introduction", "_extract_experience_level"))
                   /\ UNCHANGED <<used_questions, last>>
                \/ /\ interview_state.current_phase = "assessment"
                   /\ LET current_question == _get_current_question_from_conversation(st0)
                      IN IF current_question = NoCurrentQuestion
                         THEN flow_until_wait(t, Frame(sid, u, "assessment", ""), st0, E)
                         ELSE /\ active_interviews' = Put(sid, st0)
                              /\ inflight' =
                                    Suspend(t, [Frame(sid, u, "assessment", "evaluate_answer") EXCEPT
                                                  !.current_question = current_question,
                                                  !.in_try = TRUE])
                              /\ UNCHANGED <<used_questions, last>>
                \/ /\ interview_state.current_phase = "conclusion"
                   /\ active_interviews' = Put(sid, st0)
                   /\ inflight' = Suspend(t, Frame(sid, u, "conclusion", "evaluate_interview"))
                   /\ UNCHANGED <<used_questions, last>>
                \/ /\ interview_state.current_phase = "completed"
                   /\ active_interviews' = Put(sid, st0)
                   /\ last' = Ret("process_response", sid, "completed", "",
                                  InterviewCompleted, Meta("completed", 0, "", EmptyEval),
                                  TRUE, FALSE)
                   /\ UNCHANGED <<used_questions, inflight>>

\* the call of caller t runs on from the wait it is at to its next wait or to
\* its return
process_response_resume(t, E) ==
    /\ t \in DOMAIN inflight
    /\ UNCHANGED <<uuids, questions, settings>>
    /\ LET f == inflight[t]
           sid == f.sid
           interview_state == active_interviews[sid]
       IN \/ \* lines 104-123 of _handle_introduction_phase
             /\ f.pc = "_extract_experience_level"
             /\ \E experience_level \in E.labels :
                  LET st1 == [interview_state EXCEPT
                                 !.experience_level = experience_level,
                                 !.current_difficulty = InitialDifficulty(experience_level),
                                 !.current_phase = "assessment"]
                  IN \E first_question \in
                          get_question(questions, used_questions, st1.current_difficulty,
                                       NoCategory, TRUE) :
                       /\ active_interviews' = Put(sid, st1)
                       /\ used_questions' = MarkUsed(used_questions, first_question)
                       /\ IF first_question = NoQuestion
                          THEN /\ inflight' = Finish(t)
                               /\ last' = Ret("process_response", sid, f.phase0, "",
                                              LoadingIssue, EmptyMeta, TRUE, FALSE)
                          ELSE /\ inflight' =
                                     Suspend(t, [f EXCEPT
                                                   !.pc = "_generate_transition_message"])
                               /\ last' = last
          \/ \* lines 125-132
             /\ f.pc = "_generate_transition_message"
             /\ \E mark \in E.marks :
                  active_interviews' =
                     Put(sid, add_conversation(interview_state, "assistant",
                                               LlmText("transition", mark), E.window))
             /\ inflight' = Finish(t)
             /\ last' = Ret("process_response", sid, f.phase0, "", "transition",
                            Meta("assessment", 1, interview_state.current_difficulty,
                                 EmptyEval),
                            TRUE, FALSE)
             /\ UNCHANGED used_questions
          \/ \* lines 158-195 of _handle_assessment_phase
             /\ f.pc = "evaluate_answer"
             /\ \E o \in E.evals :
                  LET evaluation == evaluate_answer(o, f.u)
                      question_response ==
                          [ question_id |-> f.current_question.id,
                            question |-> f.current_question.question,
                            answer |-> f.u,
                            score |-> evaluation.scores.overall_score,
                            feedback |-> evaluation.feedback,
                            category |-> "General Excel",
                            difficulty |-> interview_state.current_difficulty ]
                      st1 == add_response(interview_state, question_response)
                      feedback_message ==
                          get_real_time_feedback(evaluation.scores.overall_score)
                  IN IF BudgetReached(st1)
                     THEN /\ active_interviews' =
                                Put(sid, [st1 EXCEPT !.current_phase = "conclusion"])
                          /\ inflight' =
                                Suspend(t, [f EXCEPT
                                              !.pc = "budget: _generate_conclusion_message"])
                          /\ UNCHANGED <<used_questions, last>>
                     ELSE flow_until_wait(t, [f EXCEPT !.feedback_message = feedback_message],
                                          AdjustDifficulty(st1), E)
          \/ \* lines 343-351, and 198-200 when the flow was entered from line 195
             /\ f.pc = "question_message"
             /\ \E mark \in E.marks :
                  active_interviews' =
                     Put(sid, add_conversation(interview_state, "assistant",
                                               LlmText("question", mark), E.window))
             /\ inflight' = Finish(t)
             /\ last' = Ret("process_response", sid, f.phase0, f.feedback_message,
                            "question",
                            Meta("assessment", Len(interview_state.questions_asked) + 1,
                                 interview_state.current_difficulty, EmptyEval),
                            TRUE, FALSE)
             /\ UNCHANGED used_questions
          \/ \* lines 374-376, then line 180, or line 324 and what its caller makes of it
             /\ f.pc \in {"budget: _generate_conclusion_message",
                           "flow: _generate_conclusion_message"}
             /\ \E mark \in E.marks :
                  active_interviews' = Put(sid, _generate_conclusion_message(
                                                   interview_state, mark, E.window))
             /\ inflight' = Finish(t)
             /\ last' =
                   IF f.pc = "budget: _generate_conclusion_message"
                   THEN Ret("process_response", sid, f.phase0, "", "conclusion",
                            Meta("conclusion", 0, "", EmptyEval), TRUE, FALSE)
                   ELSE IF f.in_try
                   \* line 195 unpacks a bare text: ValueError, lines 202-204
                   THEN Ret("process_response", sid, f.phase0, "", GenericContinue,
                            EmptyMeta, TRUE, TRUE)
                   ELSE Ret("process_response", sid, f.phase0, "", "conclusion", EmptyMeta,
                            FALSE, FALSE)
             /\ UNCHANGED used_questions
          \/ \* lines 215-218 of _handle_conclusion_phase
             /\ f.pc = "evaluate_interview"
             /\ \E evs \in [1..Len(interview_state.questions_asked) -> E.reevals],
                   summary \in E.summaries :
                  LET interview_evaluation == evaluate_interview(interview_state, evs, summary)
                  IN IF SummaryRaises(interview_evaluation)
                     THEN /\ inflight' = Finish(t)
                          /\ last' = Ret("process_response", sid, f.phase0, "",
                                         ConclusionFallback,
                                         Meta("completed", 0, "", EmptyEval), TRUE, TRUE)
                     ELSE /\ inflight' =
                                Suspend(t, [f EXCEPT
                                   !.pc = "_generate_interview_summary",
                                   !.evaluation =
                                      [ present |-> TRUE,
                                        overall_score |->
                                           interview_evaluation.overall_scores.overall_score,
                                        skill_level |-> interview_evaluation.skill_level,
                                        narrative |-> interview_evaluation.narrative ]])
                          /\ last' = last
             /\ UNCHANGED <<active_interviews, used_questions>>
          \/ \* lines 221-234
             /\ f.pc = "_generate_interview_summary"
             /\ active_interviews' = Put(sid, MarkCompleted(interview_state))
             /\ inflight' = Finish(t)
             /\ last' = Ret("process_response", sid, f.phase0, "", "summary",
                            Meta("completed", 0, "", f.evaluation), TRUE, FALSE)
             /\ UNCHANGED used_questions

\* --------------------------------------------------- specifications
\* the state after the module-level instances are constructed, the catalog
\* holding the first k questions of each tier
InitWith(k) ==
    /\ active_interviews = <<>>
    /\ uuids = {}
    /\ questions = QuestionBankInit(k)
    /\ used_questions = {}
    /\ settings = Settings
    /\ inflight = <<>>
    /\ last = Ret("", 0, "", "", "", EmptyMeta, FALSE, FALSE)

\* the ids callers pass: an id is unknown before it is handed out and after cleanup
Sids(cap) == 1..cap

High == LlmScores(85, 85, 85, 85)
Mid == LlmScores(60, 60, 60, 60)
Low == LlmScores(30, 30, 30, 30)

\* the general environment: every outcome of every call of the transport
Env ==
    [ answers |-> {12}, evals |-> {High, LlmMalformed},
      reevals |-> {High, LlmMalformed},
      marks |-> BOOLEAN, labels |-> {{}, {"advanced"}},
      summaries |-> {"ok", "error_dict", "non_dict", "bad_lists"},
      maxlog |-> MaxLog, window |-> LogWindow ]

Init == InitWith(QuestionsPerTier)

Next ==
    \/ start_interview(MaxSessions)
    \/ \E sid \in Sids(MaxSessions) : get_welcome_message(sid, Env)
    \/ \E sid \in Sids(MaxSessions), u \in Env.answers : process_response(sid, u, Env)
    \/ \E sid \in Sids(MaxSessions) : cleanup_session(sid)
    \/ reset_used_questions

Spec == Init /\ [][Next]_vars

\* ------------------------------------------------------------ claims
Sessions == DOMAIN active_interviews
\* the step is a process_response call on session s, which is in the registry
Call(s) ==
    /\ s \in Sessions
    /\ s \in DOMAIN active_interviews'
    /\ last'.op = "process_response"
    /\ last'.sid = s
\* the last call was a process_response on a session still in the registry
Returned == last.op = "process_response" /\ last.sid \in Sessions
IsPrefix(a, b) == Len(a) <= Len(b) /\ SubSeq(b, 1, Len(a)) = a

\* C1: the phase of a session never moves back, and every change of phase goes
\* to the next phase of Introduction, Assessment, Conclusion, Completed.
C1_PhaseStepsForward ==
    [][\A s \in Sessions \cap DOMAIN active_interviews' :
          LET p == active_interviews[s].current_phase
              q == active_interviews'[s].current_phase
          IN q # p => PhaseOrd(q) = PhaseOrd(p) + 1]_vars

C1_Witness ==
    \E s \in Sessions :
       /\ active_interviews[s].current_phase = "completed"
       /\ active_interviews[s].conversation_history # <<>>
       /\ last.phase0 = "conclusion"

\* C2 (as claimed): a process_response call made in phase Conclusion leaves the
\* session Completed, is_completed true and end_time set, and returns the
\* evaluation summary, also when the aggregation or the summary fails.
C2_ConclusionCallCompletes ==
    (Returned /\ last.phase0 = "conclusion") =>
        /\ active_interviews[last.sid].current_phase = "completed"
        /\ active_interviews[last.sid].is_completed
        /\ active_interviews[last.sid].end_time = "set"
        /\ last.meta.evaluation.present

\* C3 (as claimed): a call in phase Completed returns the closing message and
\* leaves the whole session, the transcript included, as it was.
C3_CompletedCallChangesNothing ==
    [][\A s \in Sessions :
          (Call(s) /\ active_interviews[s].current_phase = "completed") =>
              /\ last'.body = InterviewCompleted
              /\ active_interviews'[s] = active_interviews[s]]_vars

\* C3 (amended): a call in phase Completed returns the closing message, appends
\* the utterance to the transcript as one user turn, and leaves everything else
\* of the session, the used set and the registry as it was.
C3_CompletedCallOnlyLogs ==
    [][\A s \in Sessions :
          (Call(s) /\ active_interviews[s].current_phase = "completed") =>
              /\ last'.body = InterviewCompleted
              /\ \E u \in Env.answers :
                    active_interviews'[s] =
                        [active_interviews[s] EXCEPT !.conversation_history =
                            Append(@, [role |-> "user", message |-> UserMsg(u)])]
              /\ used_questions' = used_questions
              /\ \A t \in Sessions \ {s} :
                    /\ t \in DOMAIN active_interviews'
                    /\ active_interviews'[t] = active_interviews[t]]_vars

C3_Witness ==
    /\ Returned
    /\ last.phase0 = "completed"
    /\ last.body = InterviewCompleted
    /\ active_interviews[last.sid].is_completed

\* C5 (as claimed): when the selector returns no question in an Assessment call
\* that recorded an answer, the session is in Conclusion and the call returns
\* the feedback and the conclusion message, not through the except clause.
C5_NoQuestionConcludesNormally ==
    (/\ Returned
     /\ last.phase0 = "assessment"
     /\ active_interviews[last.sid].current_phase = "conclusion"
     /\ active_interviews[last.sid].questions_asked # <<>>
     /\ ~BudgetReached(active_interviews[last.sid])) =>
        /\ last.body = "conclusion"
        /\ last.feedback # ""
        /\ ~last.handled

\* C6 (as claimed): when the catalog has no first question, the call returns
\* the error message and the session is still in Introduction.
C6_NoFirstQuestionKeepsIntroduction ==
    (Returned /\ last.body = LoadingIssue) =>
        active_interviews[last.sid].current_phase = "introduction"

\* C7: the response list of a session never shrinks, grows by at most one per
\* call and only in a process_response call that starts in Assessment, and the
\* responses already in it stay as they are, in their order.
C7_ResponsesAppendOnly ==
    [][\A s \in Sessions \cap DOMAIN active_interviews' :
          LET old == active_interviews[s].questions_asked
              new == active_interviews'[s].questions_asked
          IN /\ IsPrefix(old, new)
             /\ Len(new) <= Len(old) + 1
             /\ Len(new) > Len(old) =>
                   (Call(s) /\ active_interviews[s].current_phase = "assessment")]_vars

C7_Witness ==
    \E s \in Sessions :
       /\ Len(active_interviews[s].questions_asked) = 2
       /\ active_interviews[s].current_phase = "conclusion"

\* C8: when a step of an Assessment call raises, the call returns the generic
\* continuation message, the session stays in the registry, and the responses
\* recorded before it, the one appended in this call included, are kept.
C8_FailureKeepsResponses ==
    [][\A s \in Sessions :
          (/\ last'.op = "process_response"
           /\ last'.sid = s
           /\ active_interviews[s].current_phase = "assessment"
           /\ last'.handled) =>
              /\ last'.body = GenericContinue
              /\ s \in DOMAIN active_interviews'
              /\ IsPrefix(active_interviews[s].questions_asked,
                          active_interviews'[s].questions_asked)
              /\ Len(active_interviews'[s].questions_asked) =
                    Len(active_interviews[s].questions_asked) + 1
              /\ active_interviews'[s].questions_asked[
                     Len(active_interviews'[s].questions_asked)].answer
                    = active_interviews'[s].conversation_history[
                          Len(active_interviews'[s].conversation_history) - 1].message.len]_vars

C8_Witness ==
    /\ Returned
    /\ last.phase0 = "assessment"
    /\ last.handled
    /\ last.body = GenericContinue
    /\ Len(active_interviews[last.sid].questions_asked) = 2

\* ------------------------------------------------ C4: the question budget
\* one session on the whole catalog, every question text carrying a '?', the
\* per-answer oracle returning a low or a high score
EnvBudget ==
    [ answers |-> {12}, evals |-> {Low, High}, reevals |-> {High},
      marks |-> {TRUE}, labels |-> {{}}, summaries |-> {"ok"},
      maxlog |-> MaxLogLong, window |-> LogWindow ]

NextBudget ==
    \/ start_interview(1)
    \/ \E u \in EnvBudget.answers : process_response(1, u, EnvBudget)

InitBudget == InitWith(FullCatalog)
SpecBudget == InitBudget /\ [][NextBudget]_vars

\* C4: a session never holds more than MAX_QUESTIONS responses and is never in
\* Assessment with MAX_QUESTIONS of them; the Assessment call that records the
\* MAX_QUESTIONS-th response ends in Conclusion, returns and logs the
\* conclusion message, takes no question from the catalog and leaves the
\* difficulty as it was.
C4_BudgetEndsAssessment ==
    /\ [](\A s \in Sessions :
            /\ Len(active_interviews[s].questions_asked) <= MAX_QUESTIONS
            /\ active_interviews[s].current_phase = "assessment" =>
                  Len(active_interviews[s].questions_asked) < MAX_QUESTIONS)
    /\ [][\A s \in Sessions :
            (/\ Call(s)
             /\ active_interviews[s].current_phase = "assessment"
             /\ Len(active_interviews[s].questions_asked) = MAX_QUESTIONS - 1
             /\ Len(active_interviews'[s].questions_asked) = MAX_QUESTIONS) =>
                LET h == active_interviews'[s].conversation_history
                IN /\ active_interviews'[s].current_phase = "conclusion"
                   /\ last'.body = "conclusion"
                   /\ ~last'.handled
                   /\ h[Len(h)].role = "assistant"
                   /\ h[Len(h)].message.kind = "conclusion"
                   /\ used_questions' = used_questions
                   /\ active_interviews'[s].current_difficulty =
                         active_interviews[s].current_difficulty]_vars

C4_Witness ==
    /\ Returned
    /\ last.phase0 = "assessment"
    /\ last.body = "conclusion"
    /\ Len(active_interviews[last.sid].questions_asked) = MAX_QUESTIONS
    /\ active_interviews[last.sid].current_phase = "conclusion"
    /\ AdjustDifficulty(active_interviews[last.sid]) # active_interviews[last.sid]

\* ------------------------------------------- C10: a strong candidate's run
\* one session on the whole catalog; the candidate calls themself advanced;
\* every score the oracle returns weighs in at 80 points or more
Good == LlmScores(80, 80, 80, 80)
Great == LlmScores(100, 95, 90, 80)
EnvE2E ==
    [ answers |-> {12}, evals |-> {Good, Great}, reevals |-> {Good, Great},
      marks |-> {TRUE}, labels |-> {{"advanced"}}, summaries |-> {"ok", "error_dict"},
      maxlog |-> MaxLogLong, window |-> LogWindow ]

NextE2E ==
    \/ start_interview(1)
    \/ \E u \in EnvE2E.answers : process_response(1, u, EnvE2E)

InitE2E == InitWith(FullCatalog)
SpecE2E == InitE2E /\ [][NextE2E]_vars

\* the answers submitted so far: the user turns after the introduction
Submitted(st) ==
    Cardinality({i \in 1..Len(st.conversation_history) :
                    st.conversation_history[i].role = "user"}) - 1

\* C10: on a fresh catalog with an oracle that scores every answer 80 or more,
\* a started session is in Introduction; the call with the advanced candidate's
\* introduction leaves it in Assessment at Intermediate and returns a question;
\* the session is out of Assessment before MAX_QUESTIONS answers are submitted,
\* each of them recorded; the skill level of the final evaluation is Advanced
\* or Expert.
C10_StrongCandidateRun ==
    /\ (last.op = "start_interview" /\ last.sid \in Sessions) =>
          active_interviews[last.sid].current_phase = "introduction"
    /\ (Returned /\ last.phase0 = "introduction") =>
          /\ active_interviews[last.sid].current_phase = "assessment"
          /\ active_interviews[last.sid].current_difficulty = "intermediate"
          /\ last.body = "transition"
          /\ last.pair
          /\ last.meta.phase = "assessment"
          /\ last.meta.current_difficulty = "intermediate"
          /\ used_questions \subseteq {q.id : q \in questions["intermediate"]}
          /\ Cardinality(used_questions) = 1
    /\ \A s \in Sessions :
          active_interviews[s].current_phase = "assessment" =>
              /\ Submitted(active_interviews[s]) < MAX_QUESTIONS
              /\ Len(active_interviews[s].questions_asked) = Submitted(active_interviews[s])
    /\ last.meta.evaluation.present =>
          last.meta.evaluation.skill_level \in {"advanced", "expert"}

C10_Witness ==
    /\ Returned
    /\ last.phase0 = "conclusion"
    /\ last.meta.evaluation.present
    /\ last.meta.evaluation.skill_level = "advanced"
    /\ active_interviews[last.sid].current_phase = "completed"
    /\ active_interviews[last.sid].current_difficulty = "advanced"

\* --------------------------------------------------- C9: the run ends
\* one session on a small catalog, calls made for ever; the transcript is kept
\* to its last FairWindow turns, which WindowExact shows to drop no turn while
\* the transcript is still read (in Introduction and Assessment)
EnvFair ==
    [ answers |-> {12, 40}, evals |-> {Low, LlmMalformed}, reevals |-> {Low},
      marks |-> BOOLEAN, labels |-> {{}},
      summaries |-> {"ok", "bad_lists"},
      maxlog |-> FairWindow + 1, window |-> FairWindow ]

NextFair ==
    \/ start_interview(1)
    \/ \E u \in EnvFair.answers : process_response(1, u, EnvFair)

InitFair == InitWith(QuestionsPerTier)
SpecFair ==
    /\ InitFair
    /\ [][NextFair]_vars
    /\ WF_vars(\E u \in EnvFair.answers : process_response(1, u, EnvFair))

WindowExact ==
    \A s \in Sessions :
       active_interviews[s].current_phase \in {"introduction", "assessment"} =>
           Len(active_interviews[s].conversation_history) < FairWindow

\* a session that is called for ever reaches Conclusion
ReachesConclusion ==
    \A s \in Sids(1) :
       (s \in Sessions) ~>
           (s \in Sessions /\ PhaseOrd(active_interviews[s].current_phase)
                                  >= PhaseOrd("conclusion"))

\* C9 (as claimed): with process_response called for ever and no reset of the
\* used set, a session reaches Conclusion and then Completed.
C9_EventuallyCompleted ==
    \A s \in Sids(1) :
       (s \in Sessions) ~>
           (s \in Sessions /\ active_interviews[s].current_phase = "completed")

\* ------------------------------------------- C11: the starting tier
\* the words of the classifier's first line that matter to the keyword tests,
\* as spelled; {} is a line with none of them (the transport's apology text)
LabelWords ==
    {"beginner", "Beginner", "new", "NEW", "advanced", "Advanced", "expert", "EXPERT",
     "Intermediate"}
Labels == {l \in SUBSET LabelWords : Cardinality(l) <= 2}

EnvIntro ==
    [ answers |-> {12}, evals |-> {High}, reevals |-> {High},
      marks |-> {TRUE}, labels |-> Labels, summaries |-> {"ok"},
      maxlog |-> MaxLog, window |-> LogWindow ]

NextIntro ==
    \/ start_interview(1)
    \/ \E u \in EnvIntro.answers : process_response(1, u, EnvIntro)

InitIntro == InitWith(QuestionsPerTier)
SpecIntro == InitIntro /\ [][NextIntro]_vars

\* the label holds the keyword in some spelling
Says(label, keyword) ==
    \E word \in label :
       \/ word = keyword
       \/ keyword = "beginner" /\ word = "Beginner"
       \/ keyword = "new" /\ word = "NEW"
       \/ keyword = "advanced" /\ word = "Advanced"
       \/ keyword = "expert" /\ word = "EXPERT"

\* C11: the Introduction call leaves the tier Basic when the label says
\* beginner or new in any spelling, else Intermediate when it says advanced or
\* expert, else Basic (the label Intermediate and a label with no keyword
\* included); the tier it leaves is never Advanced.
C11_InitialTierFromLabel ==
    (Returned /\ last.phase0 = "introduction") =>
        LET st == active_interviews[last.sid]
            label == st.experience_level
        IN /\ st.current_difficulty =
                 (IF Says(label, "beginner") \/ Says(label, "new") THEN "basic"
                  ELSE IF Says(label, "advanced") \/ Says(label, "expert")
                  THEN "intermediate"
                  ELSE "basic")
           /\ st.current_difficulty # "advanced"
           /\ label \in {{}, {"Intermediate"}} => st.current_difficulty = "basic"

C11_Witness ==
    /\ Returned
    /\ last.phase0 = "introduction"
    /\ active_interviews[last.sid].experience_level = {"Advanced", "NEW"}
    /\ active_interviews[last.sid].current_difficulty = "basic"

\* ------------------------------------- C12, C13: the catalog on its own
\* questions per tier of the catalog the getters are called on directly
BankTier == 2

Getters == {"get_question", "get_adaptive_question"}
\* the ids the getters have handed out since the last reset (kept with the result)
ReturnedIds == IF last.op \in Getters THEN last.returned ELSE {}
IdOf(q) == IF q = NoQuestion THEN {} ELSE {q.id}

\* categories as callers spell them other than the catalog does: in lower case,
\* in upper case, and one the catalog does not hold
Spellings == {"pivot tables", "FORMULAS & FUNCTIONS", "Macros"}

\* a caller's get_question(difficulty, category, exclude_used)
call_get_question ==
    \E difficulty \in Range(QuestionDifficulty),
       category \in {NoCategory} \cup all_categories(questions) \cup Spellings,
       exclude_used \in BOOLEAN :
      \E q \in get_question(questions, used_questions, difficulty, category, exclude_used) :
         /\ used_questions' = MarkUsed(used_questions, q)
         /\ last' = [ op |-> "get_question", difficulty |-> difficulty,
                      category |-> category, exclude_used |-> exclude_used,
                      result |-> q, used0 |-> used_questions,
                      returned |-> ReturnedIds \cup IdOf(q) ]
         /\ UNCHANGED <<active_interviews, uuids, questions, settings, inflight>>

\* current_performance: 0, 30, 49.99, 50, 65, 79.99, 80 and 85 points
Performances ==
    { Mean(0, 1), Mean(30 * Pt, 1), Mean(50 * Pt - 1, 1), Mean(50 * Pt, 1),
      Mean(65 * Pt, 1), Mean(80 * Pt - 1, 1), Mean(80 * Pt, 1), Mean(85 * Pt, 1) }

\* a caller's get_adaptive_question(current_performance, current_difficulty, answered_categories)
call_get_adaptive_question ==
    \E current_performance \in Performances,
       current_difficulty \in Range(QuestionDifficulty),
       answered_categories \in {{}, {"General Excel"}, all_categories(questions)} :
      \E q \in get_adaptive_question(questions, used_questions, current_performance,
                                     current_difficulty, answered_categories) :
         /\ used_questions' = MarkUsed(used_questions, q)
         /\ last' = [ op |-> "get_adaptive_question",
                      current_performance |-> current_performance,
                      current_difficulty |-> current_difficulty,
                      answered_categories |-> answered_categories,
                      exclude_used |-> TRUE,
                      result |-> q, used0 |-> used_questions,
                      returned |-> ReturnedIds \cup IdOf(q) ]
         /\ UNCHANGED <<active_interviews, uuids, questions, settings, inflight>>

NextBank ==
    \/ call_get_question
    \/ call_get_adaptive_question
    \/ reset_used_questions

InitBank == InitWith(BankTier)
SpecBank == InitBank /\ [][NextBank]_vars

\* C12 (as claimed): between two resets no getter call, whatever its arguments,
\* returns a question id a getter has returned before.
C12_NoIdReturnedTwice ==
    [][(last'.op \in Getters /\ last'.result # NoQuestion) =>
          last'.result.id \notin ReturnedIds]_vars

\* C12 (amended): between two resets no get_adaptive_question call and no
\* get_question call that leaves exclude_used true returns an id a getter has
\* returned before; a get_question call with exclude_used false may; right
\* after reset_used_questions every question of every tier can be drawn.
C12_NoIdReturnedTwiceWhenExcluding ==
    [][/\ (last'.op \in Getters /\ last'.result # NoQuestion /\ last'.exclude_used) =>
             last'.result.id \notin ReturnedIds
       /\ (last'.op \in Getters /\ last'.result # NoQuestion) =>
             /\ last'.result.id \in used_questions'
             /\ used_questions \subseteq used_questions'
       /\ last'.op = "reset_used_questions" =>
             \A tier \in Range(QuestionDifficulty) :
                get_question(questions', used_questions', tier, NoCategory, TRUE)
                   = questions'[tier]]_vars

C12_Witness ==
    /\ last.op = "get_adaptive_question"
    /\ last.result # NoQuestion
    /\ Cardinality(last.returned) = 3 * BankTier
    /\ last.used0 # {}

\* C13: get_adaptive_question returns no question exactly when every question
\* of the target tier is in the used set, and otherwise returns a question of
\* the target tier that was not in the used set.
C13_AdaptiveNoneIffTierExhausted ==
    last.op = "get_adaptive_question" =>
        LET target == next_difficulty(last.current_performance, last.current_difficulty)
            unused == {q \in questions[target] : q.id \notin last.used0}
        IN /\ (last.result = NoQuestion) <=> (unused = {})
           /\ unused # {} => last.result \in unused

C13_Witness ==
    /\ last.op = "get_adaptive_question"
    /\ last.answered_categories = {}
    /\ last.result # NoQuestion
    /\ last.current_difficulty = "basic"
    /\ last.result \in questions["intermediate"]
    /\ Cardinality({q \in questions["intermediate"] : q.id \notin last.used0}) = 1

\* ------------------------------------ C14..C19: the evaluator on its own
\* the sub-scores (whole points) the scoring oracle is taken to return
ScorePoints == {0, 40, 90, 100}
\* longest list of responses handed to evaluate_interview
MaxResponses == 3

Oracles ==
    {LlmScores(t, d, p, c) : t \in ScorePoints, d \in ScorePoints,
                             p \in ScorePoints, c \in ScorePoints}
       \cup {LlmErrorDict, LlmMalformed}
ReOracles == {High, Low, LlmErrorDict, LlmMalformed}
AnswerLengths == {0, 12, 40}

\* the response an Assessment call records for an answer the oracle scored as o
Recorded(o, i) ==
    LET evaluation == evaluate_answer(o, 12)
    IN [ question_id |-> i - 1, question |-> LlmText("question", TRUE), answer |-> 12,
         score |-> evaluation.scores.overall_score, feedback |-> evaluation.feedback,
         category |-> "General Excel", difficulty |-> "basic" ]

\* a session that holds the responses recorded for answers scored as os
SessionWith(os) ==
    [NewInterviewState EXCEPT !.current_phase = "conclusion",
                              !.questions_asked = [i \in 1..Len(os) |-> Recorded(os[i], i)],
                              !.current_question_index = Len(os)]

\* the calls made on the evaluator: the arguments, and what the transport
\* answers during the call
EvaluatorCalls ==
    {[op |-> "evaluate_answer", o |-> o, answer |-> answer] :
        o \in Oracles, answer \in AnswerLengths}
    \cup UNION {{[op |-> "evaluate_interview", st |-> SessionWith(os), evs |-> evs,
                  summary |-> summary] :
                    os \in [1..n -> {High, Low}], evs \in [1..n -> ReOracles],
                    summary \in {"ok", "error_dict", "non_dict", "bad_lists"}} :
                n \in 0..MaxResponses}
    \cup {[op |-> "_determine_skill_level", x |-> x] : x \in 0..(100 * Pt)}

Pending(op) == last.op = "call" /\ last.input.op = op

\* evaluate_answer(question, answer, category, difficulty)
call_evaluate_answer ==
    /\ Pending("evaluate_answer")
    /\ last' = [ op |-> "evaluate_answer", o |-> last.input.o, answer |-> last.input.answer,
                 result |-> evaluate_answer(last.input.o, last.input.answer) ]
    /\ UNCHANGED <<active_interviews, uuids, questions, settings, inflight, used_questions>>

\* evaluate_interview(interview_state)
call_evaluate_interview ==
    /\ Pending("evaluate_interview")
    /\ last' = [ op |-> "evaluate_interview", st |-> last.input.st, evs |-> last.input.evs,
                 summary |-> last.input.summary,
                 result |-> evaluate_interview(last.input.st, last.input.evs,
                                               last.input.summary) ]
    /\ UNCHANGED <<active_interviews, uuids, questions, settings, inflight, used_questions>>

\* _determine_skill_level(overall_score), the score in hundredths of a point
call_determine_skill_level ==
    /\ Pending("_determine_skill_level")
    /\ last' = [ op |-> "_determine_skill_level", x |-> last.input.x,
                 result |-> _determine_skill_level(Mean(last.input.x, 1)) ]
    /\ UNCHANGED <<active_interviews, uuids, questions, settings, inflight, used_questions>>

NextEvaluator ==
    \/ call_evaluate_answer
    \/ call_evaluate_interview
    \/ call_determine_skill_level

InitEvaluator ==
    /\ active_interviews = <<>>
    /\ uuids = {}
    /\ questions = QuestionBankInit(QuestionsPerTier)
    /\ used_questions = {}
    /\ settings = Settings
    /\ inflight = <<>>
    /\ last \in {[op |-> "call", input |-> c] : c \in EvaluatorCalls}

SpecEvaluator == InitEvaluator /\ [][NextEvaluator]_vars

\* the weighted sum of the four sub-scores of a breakdown, times Pt
WeightedSum(scores) ==
    scores.technical_score * TECHNICAL_WEIGHT + scores.depth_score * DEPTH_WEIGHT
       + scores.problem_solving_score * PROBLEM_SOLVING_WEIGHT
       + scores.communication_score * COMMUNICATION_WEIGHT

\* C14 (as claimed): when the scoring oracle call fails (the transport hands
\* back its error dictionary) or returns a structure of the wrong shape,
\* evaluate_answer returns the heuristic fallback evaluation, technical =
\* min(70, 2 x answer length) with the basic-analysis feedback, and never
\* the all-zero scores of defaulted fields.
C14_OracleFailureGivesFallback ==
    (last.op = "evaluate_answer" /\ last.o.kind \in {"error_dict", "malformed"}) =>
        /\ last.result.scores.technical_score = Min(70, 2 * last.answer) * Pt
        /\ last.result.feedback =
              "Evaluation completed with basic analysis due to system limitations."
        /\ (last.answer > 0 => last.result.scores.overall_score > 0)

\* C15 (as claimed): when the summary oracle call fails (error dictionary) or
\* an exception occurs in the aggregation, evaluate_interview returns exactly
\* the minimal evaluation, never computed scores with defaulted lists.
C15_SummaryFailureGivesMinimal ==
    (/\ last.op = "evaluate_interview"
     /\ last.summary \in {"error_dict", "non_dict"}) =>
        /\ last.result = _create_minimal_evaluation
        /\ last.result.narrative # "defaults"

\* C16: evaluate_interview on a session without responses returns the minimal
\* evaluation -- overall and the four sub-scores 50, skill level basic, trend
\* stable -- whatever the summary oracle would answer.
C16_EmptySessionGivesMinimal ==
    (last.op = "evaluate_interview" /\ Len(last.st.questions_asked) = 0) =>
        /\ last.result.overall_scores.overall_score = Mean(50 * Pt, 1)
        /\ last.result.overall_scores.technical_score = Mean(50 * Pt, 1)
        /\ last.result.overall_scores.depth_score = Mean(50 * Pt, 1)
        /\ last.result.overall_scores.problem_solving_score = Mean(50 * Pt, 1)
        /\ last.result.overall_scores.communication_score = Mean(50 * Pt, 1)
        /\ last.result.skill_level = "basic"
        /\ last.result.improvement_trend = "stable"
        /\ last.result.narrative = "minimal"
        /\ ~SummaryRaises(last.result)

C16_Witness ==
    /\ last.op = "evaluate_interview"
    /\ Len(last.st.questions_asked) = 0
    /\ last.summary = "bad_lists"
    /\ last.result = _create_minimal_evaluation

\* C17 (as claimed): the overall score of every breakdown evaluate_answer
\* returns, on the oracle path and on the fallback path, and of every aggregate
\* and minimal breakdown evaluate_interview returns, is the weighted sum of its
\* four sub-scores.
C17_OverallIsWeightedSum ==
    /\ last.op = "evaluate_answer" =>
          last.result.scores.overall_score * Pt = WeightedSum(last.result.scores)
    /\ last.op = "evaluate_interview" =>
          LET b == last.result.overall_scores
          IN b.overall_score.sum * b.technical_score.n * Pt =
                b.overall_score.n *
                   WeightedSum([technical_score |-> b.technical_score.sum,
                                depth_score |-> b.depth_score.sum,
                                problem_solving_score |-> b.problem_solving_score.sum,
                                communication_score |-> b.communication_score.sum])

SkillOrd(level) == Index(SkillLevel, level)

\* C18: _determine_skill_level gives expert from 90, advanced from 75 to below
\* 90, intermediate from 60 to below 75, basic from 40 to below 60, novice
\* below 40, and never gives a lower level to a higher score.
C18_SkillBands ==
    last.op = "_determine_skill_level" =>
        /\ last.result = (IF last.x >= 9000 THEN "expert"
                          ELSE IF last.x >= 7500 THEN "advanced"
                          ELSE IF last.x >= 6000 THEN "intermediate"
                          ELSE IF last.x >= 4000 THEN "basic"
                          ELSE "novice")
        /\ last.x > 0 =>
              SkillOrd(_determine_skill_level(Mean(last.x - 1, 1))) <= SkillOrd(last.result)

C18_Witness ==
    /\ last.op = "_determine_skill_level"
    /\ last.x = 7500
    /\ last.result = "advanced"

\* C19 (as claimed): the category performance of the final evaluation has one
\* entry per category label recorded in the session's responses, each the mean
\* score of the responses recorded with that label.
C19_CategoryPerformanceByRecordedLabel ==
    (last.op = "evaluate_interview" /\ last.result.narrative \in {"llm", "defaults"}) =>
        /\ DOMAIN last.result.category_performance =
              {last.st.questions_asked[i].category : i \in 1..Len(last.st.questions_asked)}
        /\ \A cat \in DOMAIN last.result.category_performance :
              /\ cat \in DOMAIN get_category_performance(last.st)
              /\ last.result.category_performance[cat].sum
                    * get_category_performance(last.st)[cat].n
                 = get_category_performance(last.st)[cat].sum
                    * last.result.category_performance[cat].n

\* ------------------------------------------- C20: calls with unknown ids
EnvQuery ==
    [ answers |-> {12}, evals |-> {High}, reevals |-> {High},
      marks |-> {TRUE}, labels |-> {{}}, summaries |-> {"ok"},
      maxlog |-> MaxLog, window |-> LogWindow ]

NextQuery ==
    \/ start_interview(MaxSessions)
    \/ \E sid \in Sids(MaxSessions) : get_welcome_message(sid, EnvQuery)
    \/ \E sid \in Sids(MaxSessions), u \in EnvQuery.answers :
          process_response(sid, u, EnvQuery)
    \/ \E sid \in Sids(MaxSessions) : get_interview_progress(sid)
    \/ \E sid \in Sids(MaxSessions) : get_interview_state(sid)
    \/ \E sid \in Sids(MaxSessions) : cleanup_session(sid)

InitQuery == InitWith(QuestionsPerTier)
SpecQuery == InitQuery /\ [][NextQuery]_vars

\* C20: process_response, get_interview_progress, get_welcome_message and
\* get_interview_state, called with an id that is not in the registry, return
\* their not-found result and leave the registry with every session in it, the
\* ids handed out, the catalog and the used set as they were.
C20_UnknownIdChangesNothing ==
    [][(/\ last'.op \in {"process_response", "get_interview_progress",
                         "get_welcome_message", "get_interview_state"}
        /\ last'.sid \notin DOMAIN active_interviews) =>
           /\ active_interviews' = active_interviews
           /\ uuids' = uuids
           /\ questions' = questions
           /\ used_questions' = used_questions
           /\ last'.op = "process_response" =>
                 last'.body = SessionNotFound /\ last'.meta = EmptyMeta /\ ~last'.handled
           /\ last'.op = "get_welcome_message" => last'.body = WelcomeNotFound
           /\ last'.op = "get_interview_progress" => last'.result = ProgressNotFound
           /\ last'.op = "get_interview_state" => last'.result = NoInterviewState]_vars

C20_Witness ==
    /\ last.op = "get_interview_state"
    /\ last.result = NoInterviewState
    /\ last.sid \in uuids
    /\ last.sid \notin Sessions
    /\ Sessions # {}
    /\ used_questions # {}

\* ------------------------------------------------ C21: cleanup_session
\* the registry without the entry of sid
Without(registry, sid) == [i \in DOMAIN registry \ {sid} |-> registry[i]]

\* C21: cleanup_session(id) takes exactly the session with that id out of the
\* registry and leaves every other session, the ids handed out, the catalog
\* and the used set as they were; called on an id that is not in the registry
\* (cleaned up before, or never created) it changes nothing; process_response
\* on an id that was handed out and cleaned up reports session not found.
C21_CleanupRemovesExactlyOne ==
    [][/\ last'.op = "cleanup_session" =>
             /\ active_interviews' = Without(active_interviews, last'.sid)
             /\ last'.sid \notin DOMAIN active_interviews =>
                    active_interviews' = active_interviews
             /\ uuids' = uuids
             /\ questions' = questions
             /\ used_questions' = used_questions
       /\ (last'.op = "process_response" /\ last'.sid \in uuids \ Sessions) =>
             /\ last'.body = SessionNotFound
             /\ last'.meta = EmptyMeta
             /\ active_interviews' = active_interviews]_vars

\* a cleaned-up id is answered with not found while another session, past its
\* introduction, is still in the registry
C21_Witness ==
    /\ last.op = "process_response"
    /\ last.sid \in uuids \ Sessions
    /\ last.body = SessionNotFound
    /\ \E s \in Sessions : active_interviews[s].current_phase = "assessment"

\* ------------------------------------------------ C22: start_interview
\* C22: start_interview files a session under an id that was not in the
\* registry -- phase introduction, difficulty basic, no responses, not
\* completed -- and leaves every session already there unchanged;
\* get_interview_progress reports a session's own values, so called on the new
\* id right after the start it reports introduction, 0 answered, basic, not
\* completed.
C22_StartRegistersFreshSession ==
    [][/\ last'.op = "start_interview" =>
             /\ last'.sid \notin DOMAIN active_interviews
             /\ DOMAIN active_interviews' = DOMAIN active_interviews \cup {last'.sid}
             /\ active_interviews'[last'.sid].current_phase = "introduction"
             /\ active_interviews'[last'.sid].current_difficulty = "basic"
             /\ active_interviews'[last'.sid].questions_asked = <<>>
             /\ active_interviews'[last'.sid].current_question_index = 0
             /\ active_interviews'[last'.sid].is_completed = FALSE
             /\ \A s \in DOMAIN active_interviews :
                    active_interviews'[s] = active_interviews[s]
       /\ (last'.op = "get_interview_progress" /\ last'.sid \in Sessions) =>
             /\ last'.result.phase = active_interviews[last'.sid].current_phase
             /\ last'.result.questions_answered =
                    Len(active_interviews[last'.sid].questions_asked)
             /\ last'.result.difficulty_level =
                    active_interviews[last'.sid].current_difficulty
             /\ last'.result.is_completed = active_interviews[last'.sid].is_completed
       /\ (/\ last.op = "start_interview"
           /\ last'.op = "get_interview_progress"
           /\ last'.sid = last.sid) =>
             /\ last'.result.session_id = last.sid
             /\ last'.result.phase = "introduction"
             /\ last'.result.questions_answered = 0
             /\ last'.result.difficulty_level = "basic"
             /\ last'.result.is_completed = FALSE
             /\ ~last'.result.has_category_performance]_vars

\* the progress of a session just started, asked for while an older session
\* has an answer recorded
C22_Witness ==
    /\ last.op = "get_interview_progress"
    /\ last.sid \in Sessions
    /\ active_interviews[last.sid].conversation_history = <<>>
    /\ last.result.phase = "introduction"
    /\ last.result.questions_answered = 0
    /\ \E s \in Sessions \ {last.sid} :
          /\ s < last.sid
          /\ active_interviews[s].questions_asked # <<>>

\* --------------------------------- C23, C24: calls in flight side by side
\* callers (threads or tasks) that may each be inside a process_response call
MaxCallers == 2
Callers == 1..MaxCallers

EnvThreads ==
    [ answers |-> {12}, evals |-> {High}, reevals |-> {High},
      marks |-> {TRUE}, labels |-> {{}}, summaries |-> {"ok", "bad_lists"},
      maxlog |-> MaxLog, window |-> LogWindow ]

NextThreads ==
    \/ start_interview(MaxSessions)
    \/ \E t \in Callers, sid \in Sids(MaxSessions), u \in EnvThreads.answers :
          process_response_begin(t, sid, u, EnvThreads)
    \/ \E t \in Callers : process_response_resume(t, EnvThreads)

InitThreads == InitWith(BankTier)
SpecThreads == InitThreads /\ [][NextThreads]_vars

\* the first questions the introduction handler has presented to session s
FirstQuestions(s) ==
    {i \in 1..Len(active_interviews[s].conversation_history) :
        /\ active_interviews[s].conversation_history[i].role = "assistant"
        /\ active_interviews[s].conversation_history[i].message.kind = "transition"}

\* C23 (as claimed): no two process_response calls on one session are ever in
\* flight together -- an utterance is dispatched on the session's phase only
\* when no earlier call on that session is still waiting -- and so no session
\* is ever presented two first questions by two runs of the introduction
\* handler.
C23_NoOverlapOnOneSession ==
    /\ \A t1 \in DOMAIN inflight, t2 \in DOMAIN inflight :
          t1 # t2 => inflight[t1].sid # inflight[t2].sid
    /\ \A s \in Sessions : Cardinality(FirstQuestions(s)) <= 1

\* the callers whose call moved in this step, and the session that call is on
Moved ==
    {t \in Callers :
        \/ (t \in DOMAIN inflight) # (t \in DOMAIN inflight')
        \/ (t \in DOMAIN inflight /\ t \in DOMAIN inflight' /\ inflight'[t] # inflight[t])}
SessionOf(t) == IF t \in DOMAIN inflight' THEN inflight'[t].sid ELSE inflight[t].sid

\* C24: whatever calls are in flight on other sessions, a step of a call on
\* session A changes no field of any other session B (phase, difficulty,
\* responses, log, completion flag all stay as they were), keeps every session
\* in the registry and leaves the catalog's questions alone; what calls on
\* different sessions both write is the used set only.
C24_OtherSessionsUntouched ==
    [][/\ Cardinality(Moved) <= 1
       /\ Sessions \subseteq DOMAIN active_interviews'
       /\ \A B \in Sessions :
             active_interviews'[B] # active_interviews[B] =>
                IF Moved # {} THEN \A t \in Moved : SessionOf(t) = B
                ELSE last'.op = "process_response" /\ last'.sid = B
       /\ questions' = questions
       /\ settings' = settings
       /\ uuids' # uuids => used_questions' = used_questions]_vars

\* two calls on two sessions wait side by side, each after its introduction
\* handler drew and marked a first question
C24_Witness ==
    /\ DOMAIN inflight = Callers
    /\ inflight[1].sid # inflight[2].sid
    /\ \A t \in Callers : inflight[t].pc = "_generate_transition_message"
    /\ Cardinality(used_questions) = 2
    /\ \A s \in Sessions : active_interviews[s].current_phase = "assessment"

\* --------------------------------------- C25: the weights as configured
\* settings.py as shipped, and edited so that the weights sum to 1.10 and 0.95
Configurations ==
    { Settings,
      [Settings EXCEPT !.TECHNICAL_WEIGHT = 50],
      [Settings EXCEPT !.COMMUNICATION_WEIGHT = 10] }

WeightSum(config) ==
    config.TECHNICAL_WEIGHT + config.DEPTH_WEIGHT + config.PROBLEM_SOLVING_WEIGHT
       + config.COMMUNICATION_WEIGHT

EnvConfig ==
    [ answers |-> {12}, evals |-> {High, Low}, reevals |-> {High},
      marks |-> {TRUE}, labels |-> {{}}, summaries |-> {"ok"},
      maxlog |-> MaxLog, window |-> LogWindow ]

NextConfig ==
    \/ start_interview(MaxSessions)
    \/ \E sid \in Sids(MaxSessions), u \in EnvConfig.answers :
          process_response(sid, u, EnvConfig)

\* settings = Settings() and the module-level instances are constructed
\* whatever the class holds: no constructor looks at the weights
InitConfig ==
    /\ active_interviews = <<>>
    /\ uuids = {}
    /\ questions = QuestionBankInit(BankTier)
    /\ used_questions = {}
    /\ settings \in Configurations
    /\ inflight = <<>>
    /\ last = Ret("", 0, "", "", "", EmptyMeta, FALSE, FALSE)

SpecConfig == InitConfig /\ [][NextConfig]_vars

\* C25 (as claimed): when the four weights in force do not sum to 1.0 the
\* system has refused to initialize: no session id has been handed out, no
\* session is in the registry and no answer has been scored and recorded.
C25_BadWeightsRefuseToInitialize ==
    WeightSum(settings) # Pt =>
        /\ uuids = {}
        /\ active_interviews = <<>>
        /\ \A s \in Sessions : active_interviews[s].questions_asked = <<>>

\* ------------------------------- C26, C27: the adaptation tests on their own
\* the scores (hundredths of a point) recorded in the sessions the tests are
\* called on, and the longest response list
PolicyScores == {0, 4999, 5000, 5999, 6000, 7499, 7500, 7999, 8000, 10000}
MaxRecent == 4

\* a session at the given tier that holds responses with the given scores
SessionScored(difficulty, scores) ==
    [NewInterviewState EXCEPT
        !.current_phase = "assessment",
        !.current_difficulty = difficulty,
        !.questions_asked =
            [i \in 1..Len(scores) |->
                [ question_id |-> i - 1, question |-> LlmText("question", TRUE),
                  answer |-> 12, score |-> scores[i], feedback |-> "llm feedback",
                  category |-> "General Excel", difficulty |-> difficulty ]],
        !.current_question_index = Len(scores)]

PolicyCalls ==
    {[op |-> op, st |-> SessionScored(difficulty, scores)] :
        op \in {"should_increase_difficulty", "should_decrease_difficulty"},
        difficulty \in Range(QuestionDifficulty),
        scores \in UNION {[1..n -> PolicyScores] : n \in 0..MaxRecent}}

call_should_increase_difficulty ==
    /\ Pending("should_increase_difficulty")
    /\ last' = [ op |-> "should_increase_difficulty", st |-> last.input.st,
                 result |-> should_increase_difficulty(last.input.st),
                 adjusted |-> AdjustDifficulty(last.input.st) ]
    /\ UNCHANGED <<active_interviews, uuids, questions, settings, inflight, used_questions>>

call_should_decrease_difficulty ==
    /\ Pending("should_decrease_difficulty")
    /\ last' = [ op |-> "should_decrease_difficulty", st |-> last.input.st,
                 result |-> should_decrease_difficulty(last.input.st),
                 adjusted |-> AdjustDifficulty(last.input.st) ]
    /\ UNCHANGED <<active_interviews, uuids, questions, settings, inflight, used_questions>>

NextPolicy ==
    \/ call_should_increase_difficulty
    \/ call_should_decrease_difficulty

InitPolicy ==
    /\ active_interviews = <<>>
    /\ uuids = {}
    /\ questions = QuestionBankInit(QuestionsPerTier)
    /\ used_questions = {}
    /\ settings = Settings
    /\ inflight = <<>>
    /\ last \in {[op |-> "call", input |-> c] : c \in PolicyCalls}

SpecPolicy == InitPolicy /\ [][NextPolicy]_vars

\* the sum of the last k scores of a session that has at least k responses
RecentSum(st, k) ==
    LET n == Len(st.questions_asked)
    IN SumSeq([i \in 1..k |-> st.questions_asked[n - k + i].score])

\* C26: should_increase_difficulty is true exactly when the session has at
\* least 3 responses and the mean of its last 3 scores is >= 75 at basic or
\* >= 80 at intermediate (never at advanced); should_decrease_difficulty is
\* true exactly when it has at least 2 responses and the mean of its last 2
\* scores is < 60 at advanced or < 50 at intermediate (never at basic).
C26_AdaptationThresholds ==
    /\ last.op = "should_increase_difficulty" =>
          (last.result <=>
              /\ Len(last.st.questions_asked) >= 3
              /\ \/ /\ last.st.current_difficulty = "basic"
                    /\ RecentSum(last.st, 3) >= 3 * 7500
                 \/ /\ last.st.current_difficulty = "intermediate"
                    /\ RecentSum(last.st, 3) >= 3 * 8000)
    /\ last.op = "should_decrease_difficulty" =>
          (last.result <=>
              /\ Len(last.st.questions_asked) >= 2
              /\ \/ /\ last.st.current_difficulty = "advanced"
                    /\ RecentSum(last.st, 2) < 2 * 6000
                 \/ /\ last.st.current_difficulty = "intermediate"
                    /\ RecentSum(last.st, 2) < 2 * 5000)

\* at basic the last three scores average exactly 75, after a poor first
\* answer, and the test says escalate
C26_Witness ==
    /\ last.op = "should_increase_difficulty"
    /\ last.st.current_difficulty = "basic"
    /\ Len(last.st.questions_asked) = 4
    /\ last.st.questions_asked[1].score = 0
    /\ RecentSum(last.st, 3) = 3 * 7500
    /\ last.result

\* -------------------------- C27, C28: one session through the adaptation
\* questions per tier of the catalog, and turns of the transcript
AdaptTier == 3
AdaptLog == 11

\* answers scored 0, 49, 75, 80 and 100 on every sub-score, by either label
EnvAdapt ==
    [ answers |-> {12},
      evals |-> {LlmScores(x, x, x, x) : x \in {0, 49, 75, 80, 100}},
      reevals |-> {High},
      marks |-> {TRUE}, labels |-> {{}, {"advanced"}}, summaries |-> {"ok"},
      maxlog |-> AdaptLog, window |-> LogWindow ]

NextAdapt ==
    \/ start_interview(1)
    \/ \E u \in EnvAdapt.answers : process_response(1, u, EnvAdapt)
    \/ get_interview_progress(1)

InitAdapt == InitWith(AdaptTier)
SpecAdapt == InitAdapt /\ [][NextAdapt]_vars

\* the session s as the call leaves it, at the tier the call found it at
AtOldTier(s) ==
    [active_interviews'[s] EXCEPT
        !.current_difficulty = active_interviews[s].current_difficulty]
\* the step is an Assessment call on s that recorded a response and went on
\* to the adaptation (the budget was not used up)
Adapted(s) ==
    /\ Call(s)
    /\ active_interviews[s].current_phase = "assessment"
    /\ Len(active_interviews'[s].questions_asked) =
          Len(active_interviews[s].questions_asked) + 1
    /\ Len(active_interviews'[s].questions_asked) < MAX_QUESTIONS

\* C27: no step moves a session's difficulty by more than one tier; in an
\* Assessment call that reaches the adaptation the tier goes up one when the
\* escalation test holds on the responses including the new one, down one
\* when it does not and the de-escalation test holds, and stays otherwise; the
\* two tests never both hold on a session.
C27_OneTierPerCall ==
    /\ [][\A s \in Sessions \cap DOMAIN active_interviews' :
            LET d0 == TierOrd(active_interviews[s].current_difficulty)
                d1 == TierOrd(active_interviews'[s].current_difficulty)
            IN /\ d1 - d0 \in {-1, 0, 1}
               /\ Adapted(s) =>
                     /\ ~(should_increase_difficulty(AtOldTier(s))
                             /\ should_decrease_difficulty(AtOldTier(s)))
                     /\ d1 - d0 = (IF should_increase_difficulty(AtOldTier(s)) THEN 1
                                   ELSE IF should_decrease_difficulty(AtOldTier(s)) THEN -1
                                   ELSE 0)]_vars
    /\ [](\A s \in Sessions :
            ~(should_increase_difficulty(active_interviews[s])
                /\ should_decrease_difficulty(active_interviews[s])))

\* a call escalated an intermediate session to advanced on a recent mean of
\* exactly 80, a poor answer lying further back
C27_Witness ==
    /\ Returned
    /\ last.phase0 = "assessment"
    /\ last.body = "question"
    /\ LET st == active_interviews[last.sid]
           n == Len(st.questions_asked)
       IN /\ n >= 4
          /\ st.current_difficulty = "advanced"
          /\ st.questions_asked[n].difficulty = "intermediate"
          /\ should_increase_difficulty([st EXCEPT !.current_difficulty = "intermediate"])
          /\ RecentSum(st, 3) = 3 * 80 * Pt
          /\ \E i \in 1..n : st.questions_asked[i].score < 50 * Pt

\* the tier the catalog files a question id under
TierOfId(id) == CHOOSE t \in DOMAIN questions : \E q \in questions[t] : q.id = id

\* C28: a session's difficulty changes only in the Introduction call, which
\* sets the initial tier, and in an Assessment call whose escalation or
\* de-escalation test held on the responses including the new one; selecting
\* the next question (from whatever tier), get_interview_progress, the
\* Conclusion call and calls in Completed leave it as it was.
C28_DifficultyChangesOnlyByAdaptation ==
    [][\A s \in Sessions \cap DOMAIN active_interviews' :
          /\ active_interviews'[s].current_difficulty
                 # active_interviews[s].current_difficulty =>
                \/ Call(s) /\ active_interviews[s].current_phase = "introduction"
                \/ /\ Adapted(s)
                   /\ \/ should_increase_difficulty(AtOldTier(s))
                      \/ should_decrease_difficulty(AtOldTier(s))
          /\ (\/ last'.op = "get_interview_progress"
              \/ active_interviews[s].current_phase \in {"conclusion", "completed"}) =>
                active_interviews'[s].current_difficulty
                   = active_interviews[s].current_difficulty]_vars

\* after one answer scored 80 or more a basic session, which no test can
\* move yet, has been given a question of the intermediate tier
C28_Witness ==
    /\ Returned
    /\ last.phase0 = "assessment"
    /\ last.body = "question"
    /\ LET st == active_interviews[last.sid]
       IN /\ Len(st.questions_asked) = 1
          /\ st.questions_asked[1].score >= 80 * Pt
          /\ st.current_difficulty = "basic"
          /\ last.meta.current_difficulty = "basic"
          /\ \E id \in used_questions : TierOfId(id) = "intermediate"

\* ------------------------------------------------ C29: the target tier
\* C29: the question get_adaptive_question returns comes from the tier one
\* above current_difficulty when current_performance >= 80 and the tier is not
\* advanced, one below when current_performance < 50 and the tier is not
\* basic, and from current_difficulty otherwise; never from a tier two away.
C29_TargetOneTierAway ==
    (last.op = "get_adaptive_question" /\ last.result # NoQuestion) =>
        LET p == last.current_performance
            d == TierOrd(last.current_difficulty)
            target == IF p.sum >= 8000 * p.n /\ d < 3 THEN d + 1
                      ELSE IF p.sum < 5000 * p.n /\ d > 1 THEN d - 1
                      ELSE d
        IN /\ last.result \in questions[QuestionDifficulty[target]]
           /\ \A t \in DOMAIN questions :
                 last.result \in questions[t] => TierOrd(t) - d \in {-1, 0, 1}

\* performance 85 at basic: the question comes from the intermediate tier
C29_Witness ==
    /\ last.op = "get_adaptive_question"
    /\ last.current_performance = Mean(85 * Pt, 1)
    /\ last.current_difficulty = "basic"
    /\ last.result \in questions["intermediate"]

\* ------------------------------------------ C30: the categories covered
\* C30 (as claimed): the answered categories a session passes to the adaptive
\* selector are categories of the catalog -- those of the questions it has
\* answered -- so once a response is recorded at least one category of the
\* catalog is no longer counted as unexplored.
C30_AnsweredCategoriesAreCatalogCategories ==
    \A s \in Sessions :
       LET answered_categories == AnsweredCategories(active_interviews[s])
           unexplored_categories == all_categories(questions) \ answered_categories
       IN /\ answered_categories \subseteq all_categories(questions)
          /\ active_interviews[s].questions_asked # <<>> =>
                unexplored_categories # all_categories(questions)
\* --------------------------------------------- C31: get_question's effect
\* the questions of the tier a call asked for that pass its category filter,
\* compared without regard to case, and were not in the used set
Survivors(call) ==
    {q \in questions[call.difficulty] :
        /\ q.id \notin call.used0
        /\ call.category # NoCategory =>
              category_lower(q.category) = category_lower(call.category)}

\* C31: get_question(difficulty, category, exclude_used = true) returns a
\* question of the requested tier whose category is the requested one up to
\* case and whose id was not in the used set, and adds exactly that id to the
\* used set; when no question survives the filters it returns none and leaves
\* the used set as it was.
C31_GetQuestionSelectsAndMarks ==
    (last.op = "get_question" /\ last.exclude_used) =>
        IF Survivors(last) = {}
        THEN last.result = NoQuestion /\ used_questions = last.used0
        ELSE /\ last.result \in Survivors(last)
             /\ used_questions = last.used0 \cup {last.result.id}
             /\ used_questions # last.used0

\* a category asked for in lower case finds the catalog's question while
\* other ids are in the used set
C31_Witness ==
    /\ last.op = "get_question"
    /\ last.exclude_used
    /\ last.category = "pivot tables"
    /\ last.result # NoQuestion
    /\ last.result.category = "Pivot Tables"
    /\ last.used0 # {}
    /\ used_questions = last.used0 \cup {last.result.id}

\* ------------------------ C32: get_question called from several threads
\* get_question up to its selection (lines 217-235): the filters read the used
\* set; a call that found no question returns, any other holds its list
get_question_filter(t, difficulty, category, exclude_used) ==
    /\ t \notin DOMAIN inflight
    /\ LET available_questions ==
               get_question(questions, used_questions, difficulty, category, exclude_used)
       IN IF available_questions = {NoQuestion}
          THEN /\ inflight' = inflight
               /\ last' = [ op |-> "get_question", caller |-> t,
                            exclude_used |-> exclude_used, result |-> NoQuestion,
                            returned |-> last.returned ]
          ELSE /\ inflight' = Suspend(t, [ pc |-> "random.choice",
                                           exclude_used |-> exclude_used,
                                           available_questions |-> available_questions ])
               /\ last' = [ op |-> "get_question: filter", caller |-> t,
                            exclude_used |-> exclude_used, result |-> NoQuestion,
                            returned |-> last.returned ]
    /\ UNCHANGED <<active_interviews, uuids, questions, used_questions, settings>>

\* get_question from its selection on (lines 237-240): the choice among the
\* list the filters left, and the write to the used set
get_question_select(t) ==
    /\ t \in DOMAIN inflight
    /\ \E selected_question \in inflight[t].available_questions :
          /\ used_questions' = MarkUsed(used_questions, selected_question)
          /\ last' = [ op |-> "get_question", caller |-> t,
                       exclude_used |-> inflight[t].exclude_used,
                       result |-> selected_question,
                       returned |-> last.returned \cup {selected_question.id} ]
    /\ inflight' = Finish(t)
    /\ UNCHANGED <<active_interviews, uuids, questions, settings>>

NextBankThreads ==
    \/ \E t \in Callers, difficulty \in Range(QuestionDifficulty),
          category \in {NoCategory, "pivot tables", "Macros"}, exclude_used \in BOOLEAN :
          get_question_filter(t, difficulty, category, exclude_used)
    \/ \E t \in Callers : get_question_select(t)

InitBankThreads ==
    /\ active_interviews = <<>>
    /\ uuids = {}
    /\ questions = QuestionBankInit(BankTier)
    /\ used_questions = {}
    /\ settings = Settings
    /\ inflight = <<>>
    /\ last = [ op |-> "", caller |-> 0, exclude_used |-> TRUE, result |-> NoQuestion,
                returned |-> {} ]

SpecBankThreads == InitBankThreads /\ [][NextBankThreads]_vars

\* C32: whatever way the get_question calls of several threads interleave,
\* no call that excludes used questions returns an id that a call has
\* returned before.
C32_NoIdToTwoCallers ==
    [][(last'.op = "get_question" /\ last'.exclude_used /\ last'.result # NoQuestion)
          => last'.result.id \notin last.returned]_vars

\* ------------------------------------------- C33: the aggregate scores
\* two means are the same number
MeanEq(a, b) == a.sum * b.n = b.sum * a.n

\* the evaluations evaluate_interview builds during the call recorded in `last`
QuestionEvaluations ==
    [i \in 1..Len(last.st.questions_asked) |->
        evaluate_answer(last.evs[i], last.st.questions_asked[i].answer)]

\* the sum of one score over those evaluations
Total(field) ==
    SumSeq([i \in 1..Len(QuestionEvaluations) |-> QuestionEvaluations[i].scores[field]])

\* C33: for a non-empty list of question evaluations each of the four
\* aggregate sub-scores is the arithmetic mean of that sub-score over all the
\* evaluations, the aggregate overall score is the weighted sum of those four
\* means, and there is one evaluation per recorded response.
C33_AggregateIsWeightedSumOfMeans ==
    (last.op = "evaluate_interview" /\ last.result.narrative # "minimal") =>
        LET n == Len(last.st.questions_asked)
            r == last.result.overall_scores
        IN /\ n > 0
           /\ last.result.question_evaluations = n
           /\ MeanEq(r.technical_score, Mean(Total("technical_score"), n))
           /\ MeanEq(r.depth_score, Mean(Total("depth_score"), n))
           /\ MeanEq(r.problem_solving_score, Mean(Total("problem_solving_score"), n))
           /\ MeanEq(r.communication_score, Mean(Total("communication_score"), n))
           /\ MeanEq(r.overall_score,
                     Mean(Total("technical_score") * TECHNICAL_WEIGHT
                            + Total("depth_score") * DEPTH_WEIGHT
                            + Total("problem_solving_score") * PROBLEM_SOLVING_WEIGHT
                            + Total("communication_score") * COMMUNICATION_WEIGHT, n * Pt))

\* three responses, one of them scored by the fallback, so that the weighted
\* sum of the means is not the mean of the three overall scores
C33_Witness ==
    /\ last.op = "evaluate_interview"
    /\ last.result.narrative = "llm"
    /\ Len(last.st.questions_asked) = MaxResponses
    /\ \E i, j \in 1..MaxResponses : last.evs[i] = LlmMalformed /\ last.evs[j] = High
    /\ ~MeanEq(last.result.overall_scores.overall_score,
               Mean(Total("overall_score"), MaxResponses))

\* ------------------------------------------- C34: the consistency score
\* The scores are Python floats (IEEE 754 binary64, round to nearest, ties to
\* even).  A score x with 2^e <= x < 2^(e+1) is kept as the integer x / 2^(e-53),
\* a multiple of two below 2^54, in two limbs of 27 bits: every sum and mean
\* of up to MAX_QUESTIONS copies of x is an integer of the same unit.
Limb == 2 ^ 27
Double(hi, lo, e) == [hi |-> hi, lo |-> lo, e |-> e]
Carry(hi, lo) == [hi |-> hi + lo \div Limb, lo |-> lo % Limb]

\* the binary digits a number of these limbs has beyond 53
ExtraBits(hi) ==
    IF hi < 2 ^ 26 THEN 0 ELSE IF hi < 2 ^ 27 THEN 1 ELSE IF hi < 2 ^ 28 THEN 2
    ELSE IF hi < 2 ^ 29 THEN 3 ELSE IF hi < 2 ^ 30 THEN 4 ELSE 5

\* the float nearest to N + rem/n: 53 significant digits, ties to even
RoundNearestEven(N, rem, n) ==
    LET t == ExtraBits(N.hi)
        r == N.lo % (2 ^ t)
        odd == (N.lo \div (2 ^ t)) % 2 = 1
        up == \/ 2 * (r * n + rem) > (2 ^ t) * n
              \/ 2 * (r * n + rem) = (2 ^ t) * n /\ odd
    IN Carry(N.hi, N.lo - r + (IF up THEN 2 ^ t ELSE 0))

\* sum(scores): 0 + scores[1] is exact, every further addition rounds
RECURSIVE FloatSum(_)
FloatSum(scores) ==
    IF Len(scores) = 1 THEN [hi |-> scores[1].hi, lo |-> scores[1].lo]
    ELSE LET total == FloatSum(SubSeq(scores, 1, Len(scores) - 1))
             score == scores[Len(scores)]
         IN RoundNearestEven(Carry(total.hi + score.hi, total.lo + score.lo), 0, 1)

\* total / count, rounded
FloatDiv(total, count) ==
    LET low == (total.hi % count) * Limb + total.lo
    IN RoundNearestEven([hi |-> total.hi \div count, lo |-> low \div count],
                        low % count, count)

Abs(x) == IF x < 0 THEN -x ELSE x

\* ExcelAnswerEvaluator._calculate_consistency_score on a list that holds one
\* overall score throughout.  The result is 100.0 less `below` units of 2^-46
\* (the spacing of the floats from 64 to 128).  Every deviation is the same
\* small multiple d of the unit, so its square, the sum of the squares, the
\* variance and the root are floats computed without rounding, std_dev is |d|
\* units, and only 100 - std_dev * 4 rounds again.
_calculate_consistency_score(scores) ==
    IF Len(scores) < 2 THEN [below |-> 0]
    ELSE LET mean_score == FloatDiv(FloatSum(scores), Len(scores))
             score == scores[1]
             std_dev == Abs((mean_score.hi - score.hi) * Limb + (mean_score.lo - score.lo))
             \* std_dev * 4 is std_dev * 2^(e-5) units of 2^-46
             shift == 2 ^ Abs(score.e - 5)
             q == std_dev \div shift
             r == std_dev % shift
         IN IF score.e >= 5 THEN [below |-> std_dev * shift]
            ELSE [below |-> q + (IF 2 * r > shift \/ (2 * r = shift /\ q % 2 = 1)
                                 THEN 1 ELSE 0)]

\* overall scores: 80.0, 61.6 (the fallback's score of a long answer), 35.2,
\* 12.6, 86.35, 21.12 and 8.8, as the floats nearest to them
OverallScores ==
    { Double(83886080, 0, 6), Double(129184563, 26843546, 5),
      Double(73819750, 53687092, 5), Double(105696460, 107374182, 3),
      Double(90544537, 80530636, 6), Double(88583700, 64424510, 4),
      Double(73819750, 53687092, 3) }

ConsistencyCalls ==
    {[op |-> "_calculate_consistency_score", scores |-> [i \in 1..n |-> score]] :
        score \in OverallScores, n \in 1..MAX_QUESTIONS}

\* _calculate_consistency_score(evaluations)
call_calculate_consistency_score ==
    /\ Pending("_calculate_consistency_score")
    /\ last' = [ op |-> "_calculate_consistency_score", scores |-> last.input.scores,
                 result |-> _calculate_consistency_score(last.input.scores) ]
    /\ UNCHANGED <<active_interviews, uuids, questions, settings, inflight, used_questions>>

NextConsistency == call_calculate_consistency_score

InitConsistency ==
    /\ active_interviews = <<>>
    /\ uuids = {}
    /\ questions = QuestionBankInit(QuestionsPerTier)
    /\ used_questions = {}
    /\ settings = Settings
    /\ inflight = <<>>
    /\ last \in {[op |-> "call", input |-> c] : c \in ConsistencyCalls}

SpecConsistency == InitConsistency /\ [][NextConsistency]_vars

\* C34: the consistency score of a single evaluation, and of any list whose
\* overall scores are all equal, is exactly 100.
C34_EqualScoresGiveExactly100 ==
    last.op = "_calculate_consistency_score" => last.result.below = 0

\* ------------------------------------------ C35: the improvement trend
\* overall scores (whole points) of the evaluations handed to the trend
TrendPoints == {40, 50, 60, 70}
\* longest list of evaluations handed to the trend
MaxTrend == 5

\* a question evaluation with the overall score x points
EvaluationOf(x) == [scores |-> ScoreBreakdown(x * Pt, x * Pt, x * Pt, x * Pt, x * Pt)]

TrendCalls ==
    UNION {{[op |-> "_analyze_improvement_trend",
             evaluations |-> [i \in 1..n |-> EvaluationOf(xs[i])]] :
               xs \in [1..n -> TrendPoints]} : n \in 0..MaxTrend}

\* _analyze_improvement_trend(evaluations)
call_analyze_improvement_trend ==
    /\ Pending("_analyze_improvement_trend")
    /\ last' = [ op |-> "_analyze_improvement_trend",
                 evaluations |-> last.input.evaluations,
                 result |-> _analyze_improvement_trend(last.input.evaluations) ]
    /\ UNCHANGED <<active_interviews, uuids, questions, settings, inflight, used_questions>>

NextTrend == call_analyze_improvement_trend

InitTrend ==
    /\ active_interviews = <<>>
    /\ uuids = {}
    /\ questions = QuestionBankInit(QuestionsPerTier)
    /\ used_questions = {}
    /\ settings = Settings
    /\ inflight = <<>>
    /\ last \in {[op |-> "call", input |-> c] : c \in TrendCalls}

SpecTrend == InitTrend /\ [][NextTrend]_vars

\* C35: the trend is "stable" for fewer than 3 evaluations; for n >= 3 it
\* compares the mean of the first n \div 3 overall scores with the mean of the
\* last n \div 3, the scores between them counting for neither, and is
\* "improving" when the last mean is more than 5 points above the first,
\* "declining" when it is more than 5 points below, and "stable" otherwise.
C35_TrendComparesEqualThirds ==
    last.op = "_analyze_improvement_trend" =>
        LET n == Len(last.evaluations)
            scores == [i \in 1..n |-> last.evaluations[i].scores.overall_score]
            k == n \div 3
            first_sum == SumSeq(SubSeq(scores, 1, k))
            last_sum == SumSeq(SubSeq(scores, n - k + 1, n))
        IN last.result = IF n < 3 THEN "stable"
                         ELSE IF last_sum - first_sum > 5 * Pt * k THEN "improving"
                         ELSE IF last_sum - first_sum < (-5) * Pt * k THEN "declining"
                         ELSE "stable"

\* ------------------------------------------ C36: the completion fields
\* C36: in every reachable state every session has is_completed true exactly
\* when its phase is Completed, and its end time set exactly when its phase
\* is Completed.  The calls are taken one at a time, as everywhere but in the
\* specifications of overlapping calls: a call that C23 lets overlap another
\* on its session can set the phase back after the session has completed.
C36_CompletedFieldsAgree ==
    \A s \in Sessions :
        /\ active_interviews[s].is_completed
              <=> active_interviews[s].current_phase = "completed"
        /\ active_interviews[s].end_time # "None"
              <=> active_interviews[s].current_phase = "completed"

\* one session completed, another still in Conclusion after a call there
\* that failed
C36_Witness ==
    /\ \E s \in Sessions :
          /\ active_interviews[s].current_phase = "completed"
          /\ active_interviews[s].is_completed
          /\ active_interviews[s].end_time = "set"
    /\ last.op = "process_response"
    /\ last.sid \in Sessions
    /\ last.phase0 = "conclusion"
    /\ active_interviews[last.sid].current_phase = "conclusion"
    /\ ~active_interviews[last.sid].is_completed

\* ------------------------------- C37: the tier a question is drawn from
\* C37: every question put to the candidate is drawn from the tier that is
\* the session's current difficulty at the moment it is asked (so that the
\* difficulty recorded with the answer is the tier of the question answered).
C37_QuestionFromCurrentTier ==
    [][(last'.op = "process_response" /\ last'.sid \in DOMAIN active_interviews') =>
          \A id \in used_questions' \ used_questions :
             TierOfId(id) = active_interviews'[last'.sid].current_difficulty]_vars

\* -------------------------- C38: the question a response is recorded for
\* the turns of a transcript in which the assistant presents a catalog question
Issued(h) ==
    {i \in 1..Len(h) : h[i].role = "assistant"
                          /\ h[i].message.kind \in {"transition", "question"}}
\* the turns the look-up for the current question stops at
Marked(h) == {i \in 1..Len(h) : h[i].role = "assistant" /\ h[i].message.mark}
Latest(turns) == CHOOSE i \in turns : \A j \in turns : j <= i

\* C38: a call that records a response records it for the question the
\* catalog issued last, whatever the texts before it look like: never for an
\* earlier question, which has its response, and never for a message that
\* presents no catalog question.
C38_ResponseAnswersLatestQuestion ==
    [][(/\ last'.op = "process_response"
        /\ last'.sid \in DOMAIN active_interviews
        /\ last'.sid \in DOMAIN active_interviews'
        /\ Len(active_interviews'[last'.sid].questions_asked)
              = Len(active_interviews[last'.sid].questions_asked) + 1)
       => LET h == active_interviews[last'.sid].conversation_history
          IN /\ Issued(h) # {}
             /\ Latest(Marked(h)) = Latest(Issued(h))]_vars

\* C39: the ids the catalog has handed out stay in its used set through every
\* call but reset_used_questions: through the call that completes a session
\* and through cleanup_session, which leaves the set as it was.  Only
\* reset_used_questions takes ids out, and it takes them all.  A question
\* handed to a session, whenever it was started, is therefore one of the
\* catalog that no session before has drawn since the last reset.
C39_UsedIdsOutliveSessions ==
    [][/\ last'.op # "reset_used_questions" => used_questions \subseteq used_questions'
       /\ last'.op = "cleanup_session" => used_questions' = used_questions
       /\ last'.op = "reset_used_questions" => used_questions' = {}
       /\ \A id \in used_questions' \ used_questions :
             /\ last'.op = "process_response"
             /\ id \in {q.id : q \in UNION {questions[t] : t \in DOMAIN questions}}]_vars

\* every session that drew a question has been evicted, the last one by the
\* call just made, and the ids are still marked
C39_Witness ==
    /\ last.op = "cleanup_session"
    /\ last.sid \in uuids
    /\ active_interviews = <<>>
    /\ used_questions # {}

\* C40: when the metadata process_response returns carries a phase, that phase
\* is the phase the session is in once the call has returned: "assessment"
\* only for a session in Assessment, "conclusion" only in Conclusion,
\* "completed" only in Completed.
C40_MetadataPhaseIsCurrentPhase ==
    (Returned /\ last.meta.phase # "") =>
        last.meta.phase = active_interviews[last.sid].current_phase

====
